---- MODULE Spec2Model ----
(***************************************************************************)
(* Multi-mirror search, link resolution and concurrent fetch engine of     *)
(* get_ketabha (src/src/libgen_search.py and src/src/utils/*_handler.py).  *)
(*                                                                         *)
(* The module holds one specification per component:                       *)
(*   SpecDedup     LibGenSearcher._remove_duplicates                       *)
(*   SpecFetch     get_best_file_from_links of both parallel handlers      *)
(*   SpecRegistry  _get_prioritized_mirrors / _update_mirror_reliability   *)
(*   SpecSearch    LibGenSearcher.search with its cache and the registry   *)
(*   SpecResolve   get_download_links / _get_final_download_links          *)
(*   SpecSend      the download of _send_book_file: race, then FileHandler *)
(* Every specification leaves the variables of the other components at     *)
(* their initial values.                                                   *)
(***************************************************************************)
EXTENDS Integers, Sequences, FiniteSets, TLC

VARIABLES
    \* ---- _remove_duplicates
    results,            \* the input list of book records
    unique_results,     \* the returned list
    dedup_kept,         \* indices of the input records that were kept
    dedup_pc,           \* "call" | "returned"
    \* ---- get_best_file_from_links
    handler,            \* "truly_parallel" | "concurrent": the class in use
    download_links,     \* the candidate links handed to the fetcher
    sorted_links,       \* sorted(download_links, key=_get_link_priority)
    task,               \* asyncio task per launched candidate
    work,               \* the download behind each task (coroutine I/O or thread)
    task_result,        \* what each completed task returned
    done,               \* the `done` set asyncio.wait returned
    cancel_i,           \* position of the "cancel remaining tasks" loop
    fetch_result,       \* the value get_best_file_from_links returned
    fetch_pc,           \* "call" | "waiting" | "cancelling" | "collect" | "returned"
    \* ---- mirror registry (LibGenSearcher attributes) and the clock
    now,                    \* time.time(), in seconds
    libgen_mirrors,         \* the configured catalog mirrors, in order
    failed_mirrors,         \* self.failed_mirrors
    mirror_reliability,     \* self.mirror_reliability: mirror -> record
    mirror_response_times,  \* self.mirror_response_times: mirror -> milliseconds
    ranked,                 \* the list _get_prioritized_mirrors just returned
                            \* (<<>> once another operation has run)
    readmitted,             \* mirrors that call discarded from failed_mirrors
    consec_failures,        \* failures recorded per mirror since its last success
    n_outcomes,             \* number of outcomes recorded so far
    \* ---- LibGenSearcher.search
    search_cache,           \* self.search_cache: cache key -> [data, time]
    search_pc,              \* "idle" | "trying" | "hung"
    query,                  \* the query of the call in progress
    max_results,            \* its max_results
    current_time,           \* time.time() read at its cache check
    entry_time,             \* cache_time of the entry its lookup found, -1 if none
    prioritized_mirrors,    \* its ranked mirror list
    mirror_i,               \* index of its next mirror attempt
    search_results,         \* `results` of the call in progress
    net_calls,              \* requests it has sent to mirrors
    attempts,               \* its mirror attempts so far: [mirror, outcome, requests]
    ret,                    \* what the last completed call returned, and how
    n_searches,             \* number of search() calls made so far
    \* ---- LibGenSearcher.get_download_links
    resolve_final_urls,     \* self.resolve_final_urls
    resolve_pc,             \* "idle" | "mirrors" | "returned"
    mirror_index,           \* index of the next download mirror of the loop
    collected_links,        \* `download_links` of the call; the list it returns
    successful_mirrors,     \* download mirrors that yielded a link
    \* ---- TelegramLibGenBot._send_book_file: the race, then FileHandler
    send_pc,                \* "idle" | "parallel" | "fallback" | "done"
    send_resp,              \* the response the last download request received
    send_attempt,           \* `attempt` of FileHandler._download_file
    file_data,              \* `file_data` of _send_book_file
    \* ---- LibGenSearcher._parse_search_results
    table,                  \* `table`, the results table found in the html
    parsed,                 \* `results`, the list the parser returns
    parse_pc,               \* "call" | "returned"
    \* ---- LibGenSearcher._test_download_link
    head_answer,            \* what the server does with the HEAD request
    get_answer,             \* what it would answer to GET with Range: bytes=0-0
    link_requests,          \* the methods of the requests sent, in order
    link_ok,                \* None while running, then <<the returned bool>>
    \* ---- search() coroutines running as tasks of one event loop
    calls,                  \* per task: the locals of its search() call
    recorded,               \* per mirror: the _update_mirror_reliability calls made
    fetched_at,             \* per cache key: when the cached list was fetched
    last_hit                \* the cache hit just served: its time and the entry

dedupVars == <<results, unique_results, dedup_kept, dedup_pc>>

fetchVars == <<handler, download_links, sorted_links, task, work, task_result,
               done, cancel_i, fetch_result, fetch_pc>>

regVars == <<now, libgen_mirrors, failed_mirrors, mirror_reliability,
             mirror_response_times, ranked, readmitted, consec_failures,
             n_outcomes>>

searchVars == <<search_cache, search_pc, query, max_results, current_time,
                entry_time, prioritized_mirrors, mirror_i, search_results,
                net_calls, attempts, ret, n_searches>>

resolveVars == <<resolve_final_urls, resolve_pc, mirror_index, collected_links,
                 successful_mirrors>>

sendVars == <<send_pc, send_resp, send_attempt, file_data>>

parseVars == <<table, parsed, parse_pc>>

linkTestVars == <<head_answer, get_answer, link_requests, link_ok>>

concVars == <<calls, recorded, fetched_at, last_hit>>

vars == <<dedupVars, fetchVars, regVars, searchVars, resolveVars, sendVars,
          parseVars, linkTestVars, concVars>>

notDedupVars == <<fetchVars, regVars, searchVars, resolveVars, sendVars,
    parseVars, linkTestVars, concVars>>

notFetchVars == <<dedupVars, regVars, searchVars, resolveVars, sendVars,
    parseVars, linkTestVars, concVars>>

notRegVars == <<dedupVars, fetchVars, searchVars, resolveVars, sendVars,
    parseVars, linkTestVars, concVars>>

notRegSearchVars == <<dedupVars, fetchVars, resolveVars, sendVars,
    parseVars, linkTestVars, concVars>>

notResolveVars == <<dedupVars, fetchVars, regVars, searchVars, sendVars,
    parseVars, linkTestVars, concVars>>

notSendVars == <<dedupVars, fetchVars, regVars, searchVars, resolveVars,
    parseVars, linkTestVars, concVars>>

notParseVars == <<dedupVars, fetchVars, regVars, searchVars, resolveVars,
                  sendVars, linkTestVars, concVars>>

notLinkTestVars == <<dedupVars, fetchVars, regVars, searchVars, resolveVars,
                     sendVars, parseVars, concVars>>

\* What the interleaved search() calls leave alone
notConcVars == <<dedupVars, fetchVars, resolveVars, sendVars, parseVars,
                 linkTestVars, libgen_mirrors, ranked, readmitted, search_pc,
                 query, max_results, current_time, entry_time,
                 prioritized_mirrors, mirror_i, search_results, net_calls,
                 attempts, ret>>

\* ------------------------------------------------------------------------
\* Strings are sequences of one-character strings, so that str.lower() and
\* str.strip() are computed and not assumed.
\* ------------------------------------------------------------------------

LowerChar(c) ==
    CASE c = "A" -> "a"
      [] c = "B" -> "b"
      [] c = "P" -> "p"
      [] c = "T" -> "t"
      [] c = "Y" -> "y"
      [] OTHER -> c

Lower(s) == [i \in 1..Len(s) |-> LowerChar(s[i])]

IsSpace(c) == c = " "

RECURSIVE LStrip(_)
LStrip(s) ==
    IF s # <<>> /\ IsSpace(Head(s)) THEN LStrip(Tail(s)) ELSE s

RECURSIVE RStrip(_)
RStrip(s) ==
    IF s # <<>> /\ IsSpace(s[Len(s)]) THEN RStrip(SubSeq(s, 1, Len(s) - 1)) ELSE s

Strip(s) == RStrip(LStrip(s))

Take(s, n) == SubSeq(s, 1, IF n < Len(s) THEN n ELSE Len(s))

Min(a, b) == IF a < b THEN a ELSE b

SeqElems(s) == {s[i] : i \in 1..Len(s)}

\* All sequences over S of length lo..hi
SeqsOf(S, lo, hi) == UNION {[1..n -> S] : n \in lo..hi}

\* ------------------------------------------------------------------------
\* Deduplicator: LibGenSearcher._remove_duplicates
\* ------------------------------------------------------------------------

MaxBooks == 3

NoMd5 == ""

Md5s == {NoMd5, "m1", "m2"}

Titles == {<<"T">>, <<"t", " ">>}

Authors == {<<"A">>, <<"B">>}

Books == [md5 : Md5s, title : Titles, author : Authors]

\* book_key = (title.lower().strip(), author.lower().strip())
BookKey(book) == <<Strip(Lower(book.title)), Strip(Lower(book.author))>>

\* A seeded slip: the md5 is remembered only for a record that is kept.
DedupStepMd5SeenOnKeep(book, i, st) ==
    IF book.md5 # NoMd5 /\ book.md5 \in st.seen_md5
    THEN st
    ELSE IF BookKey(book) \in st.seen_books
         THEN st
         ELSE [seen_md5 |-> IF book.md5 # NoMd5 THEN st.seen_md5 \cup {book.md5}
                                                ELSE st.seen_md5,
               seen_books |-> st.seen_books \cup {BookKey(book)},
               kept |-> Append(st.kept, i)]

\* One iteration of the loop body over `book`, the i-th input record.
DedupStep(book, i, st) ==
    IF book.md5 # NoMd5 /\ book.md5 \in st.seen_md5
    THEN st                                                   \* continue
    ELSE LET seen1 == IF book.md5 # NoMd5 THEN st.seen_md5 \cup {book.md5}
                                          ELSE st.seen_md5
         IN  IF BookKey(book) \in st.seen_books
             THEN [st EXCEPT !.seen_md5 = seen1]              \* continue
             ELSE [seen_md5 |-> seen1,
                   seen_books |-> st.seen_books \cup {BookKey(book)},
                   kept |-> Append(st.kept, i)]

RECURSIVE DedupLoop(_, _, _)
DedupLoop(books, i, st) ==
    IF i > Len(books) THEN st
    ELSE DedupLoop(books, i + 1, DedupStep(books[i], i, st))

\* Indices (ascending) of the records _remove_duplicates keeps.
RemoveDuplicatesKept(books) ==
    DedupLoop(books, 1, [seen_md5 |-> {}, seen_books |-> {}, kept |-> <<>>]).kept

\* A seeded slip: the kept records are returned last-kept first.
RemoveDuplicatesNewestFirst(books) ==
    LET kept == RemoveDuplicatesKept(books)
    IN  [k \in 1..Len(kept) |-> books[kept[Len(kept) + 1 - k]]]

RemoveDuplicates(books) ==
    LET kept == RemoveDuplicatesKept(books)
    IN  [k \in 1..Len(kept) |-> books[kept[k]]]

DedupInitVars ==
    /\ results = <<>>
    /\ unique_results = <<>>
    /\ dedup_kept = <<>>
    /\ dedup_pc = "idle"

\* ------------------------------------------------------------------------
\* Mirror registry: _get_prioritized_mirrors, _update_mirror_reliability
\* ------------------------------------------------------------------------

\* time.time() at the start of the run and the last instant modelled
StartTime == 1000

MaxTime == 1450

\* The clock advances in steps of half a cooldown window, so that an age of
\* less than, exactly and more than 300 s all occur.
TickSteps == {150}

MaxOutcomes == 2

COOLDOWN_SECONDS == 300

MIN_AVAILABLE == 3

FALLBACK_COUNT == 3

\* Measured response times, in milliseconds
ResponseTimes == {1000, 3000}

DEFAULT_RESPONSE_MS == 10000

\* reliability_data.get('last_failure', 0)
LastFailure(rel, m) == IF m \in DOMAIN rel THEN rel[m].last_failure ELSE 0

\* success_rate as the fraction <<numerator, denominator>>: successful_requests
\* / total_requests once a record exists (it is recomputed by every update),
\* the default 0.5 otherwise.
SuccessRate(rel, m) ==
    IF m \in DOMAIN rel
    THEN <<rel[m].successful_requests, rel[m].total_requests>>
    ELSE <<1, 2>>

AvgResponseMs(rtimes, m) ==
    IF m \in DOMAIN rtimes THEN rtimes[m] ELSE DEFAULT_RESPONSE_MS

\* reliability_score(a) > reliability_score(b), where
\* score = success_rate * 100 - avg_response_time * 0.1 (seconds); both sides
\* are multiplied by 10000 * denominators to stay in the integers.
ScoreGreater(rel, rtimes, a, b) ==
    LET sa == SuccessRate(rel, a)
        sb == SuccessRate(rel, b)
    IN  (1000000 * sa[1] - AvgResponseMs(rtimes, a) * sa[2]) * sb[2]
          > (1000000 * sb[1] - AvgResponseMs(rtimes, b) * sb[2]) * sa[2]

\* Insert m into a list sorted by descending score, after every element whose
\* score is not smaller (list.sort(reverse=True) is stable).
RECURSIVE InsertByScore(_, _, _, _)
InsertByScore(rel, rtimes, sorted, m) ==
    IF sorted = <<>> THEN <<m>>
    ELSE IF ScoreGreater(rel, rtimes, m, Head(sorted))
         THEN <<m>> \o sorted
         ELSE <<Head(sorted)>> \o InsertByScore(rel, rtimes, Tail(sorted), m)

RECURSIVE SortByScore(_, _, _)
SortByScore(rel, rtimes, ms) ==
    IF ms = <<>> THEN <<>>
    ELSE InsertByScore(rel, rtimes,
                       SortByScore(rel, rtimes, SubSeq(ms, 1, Len(ms) - 1)),
                       ms[Len(ms)])

RECURSIVE FilterSeq(_, _)
FilterSeq(ms, keep) ==
    IF ms = <<>> THEN <<>>
    ELSE IF Head(ms) \in keep THEN <<Head(ms)>> \o FilterSeq(Tail(ms), keep)
         ELSE FilterSeq(Tail(ms), keep)

\* The test of the first loop: a mirror of failed_mirrors is taken back when
\* more than 300 s have passed since its last failure.
CooldownElapsed(t, rel, m) == t - LastFailure(rel, m) > COOLDOWN_SECONDS

\* A seeded slip: a failed mirror is never taken back.
AvailableNeverReadmit(mirrors, failed, rel, t) == SeqElems(mirrors) \ failed

\* The mirrors the first loop of _get_prioritized_mirrors appends.
Available(mirrors, failed, rel, t) ==
    {m \in SeqElems(mirrors) : m \notin failed \/ CooldownElapsed(t, rel, m)}

\* A seeded slip: the fallback mirrors are appended however many mirrors are
\* available.
GetPrioritizedMirrorsAlwaysFallback(mirrors, failed, rel, rtimes, t) ==
    LET avail == Available(mirrors, failed, rel, t)
        sorted == SortByScore(rel, rtimes, FilterSeq(mirrors, avail))
        fallback == FilterSeq(mirrors, SeqElems(mirrors) \ avail)
    IN  [list |-> sorted \o Take(fallback, FALLBACK_COUNT),
         failed |-> failed \ avail]

\* A seeded slip: no failed mirror is appended as fallback.
GetPrioritizedMirrorsNoFallback(mirrors, failed, rel, rtimes, t) ==
    LET avail == Available(mirrors, failed, rel, t)
    IN  [list |-> SortByScore(rel, rtimes, FilterSeq(mirrors, avail)),
         failed |-> failed \ avail]

\* A seeded slip: the call empties failed_mirrors.
GetPrioritizedMirrorsClearsFailed(mirrors, failed, rel, rtimes, t) ==
    LET avail == Available(mirrors, failed, rel, t)
        sorted == SortByScore(rel, rtimes, FilterSeq(mirrors, avail))
        fallback == FilterSeq(mirrors, SeqElems(mirrors) \ avail)
    IN  [list |-> IF Len(sorted) < MIN_AVAILABLE
                  THEN sorted \o Take(fallback, FALLBACK_COUNT)
                  ELSE sorted,
         failed |-> {}]

\* _get_prioritized_mirrors: the returned list and failed_mirrors afterwards.
GetPrioritizedMirrors(mirrors, failed, rel, rtimes, t) ==
    LET avail == Available(mirrors, failed, rel, t)
        sorted == SortByScore(rel, rtimes, FilterSeq(mirrors, avail))
        fallback == FilterSeq(mirrors, SeqElems(mirrors) \ avail)
    IN  [list |-> IF Len(sorted) < MIN_AVAILABLE
                  THEN sorted \o Take(fallback, FALLBACK_COUNT)
                  ELSE sorted,
         failed |-> failed \ avail]

\* A seeded slip: a failure is counted but the mirror is not put in cooldown.
FailedAfterUpdateNoAdd(failed, m, success) == failed \ (IF success THEN {m} ELSE {})

\* failed_mirrors after _update_mirror_reliability(m, success, _)
FailedAfterUpdate(failed, m, success) ==
    IF success THEN failed \ {m} ELSE failed \cup {m}

\* A seeded slip: total_requests is incremented for failures only.
ReliabilityAfterUpdateTotalOnFailure(rel, m, success, t) ==
    LET old == IF m \in DOMAIN rel THEN rel[m]
               ELSE [total_requests |-> 0, successful_requests |-> 0,
                     last_failure |-> 0, last_success |-> t]
        new == [total_requests |-> old.total_requests
                                     + (IF success THEN 0 ELSE 1),
                successful_requests |-> old.successful_requests
                                          + (IF success THEN 1 ELSE 0),
                last_failure |-> IF success THEN old.last_failure ELSE t,
                last_success |-> t]
    IN  [x \in DOMAIN rel \cup {m} |-> IF x = m THEN new ELSE rel[x]]

\* A seeded slip: the counters are written from a record read before the
\* other updates of the mirror were made.
ReliabilityAfterUpdateStaleRead(rel, m, success, t) ==
    LET new == [total_requests |-> 1,
                successful_requests |-> IF success THEN 1 ELSE 0,
                last_failure |-> IF success THEN 0 ELSE t,
                last_success |-> t]
    IN  [x \in DOMAIN rel \cup {m} |-> IF x = m THEN new ELSE rel[x]]

\* mirror_reliability after _update_mirror_reliability(m, success, _) at time t
ReliabilityAfterUpdate(rel, m, success, t) ==
    LET old == IF m \in DOMAIN rel THEN rel[m]
               ELSE [total_requests |-> 0, successful_requests |-> 0,
                     last_failure |-> 0, last_success |-> t]
        new == [total_requests |-> old.total_requests + 1,
                successful_requests |-> old.successful_requests
                                          + (IF success THEN 1 ELSE 0),
                last_failure |-> IF success THEN old.last_failure ELSE t,
                last_success |-> t]
    IN  [x \in DOMAIN rel \cup {m} |-> IF x = m THEN new ELSE rel[x]]

\* mirror_response_times after the update: 0.7 * old + 0.3 * new
ResponseTimesAfterUpdate(rtimes, m, rt) ==
    LET new == IF m \in DOMAIN rtimes THEN (7 * rtimes[m] + 3 * rt) \div 10 ELSE rt
    IN  [x \in DOMAIN rtimes \cup {m} |-> IF x = m THEN new ELSE rtimes[x]]

RegInitVars ==
    /\ now = StartTime
    /\ libgen_mirrors = <<>>
    /\ failed_mirrors = {}
    /\ mirror_reliability = <<>>
    /\ mirror_response_times = <<>>
    /\ ranked = <<>>
    /\ readmitted = {}
    /\ consec_failures = <<>>
    /\ n_outcomes = 0

\* ------------------------------------------------------------------------
\* Search orchestrator and result cache: LibGenSearcher.search
\* ------------------------------------------------------------------------

CACHE_TTL == 300

MD5_LENGTH == 32

SEARCH_MIRROR_CAP == 5

HexChars == {"a", "b", "c", "d", "e", "f",
             "0", "1", "2", "3", "4", "5", "6", "7", "8", "9"}

\* A seeded slip: the pattern is matched against the query as typed.
IsMd5QueryCaseSensitive(q) ==
    /\ Len(q) = MD5_LENGTH
    /\ \A i \in 1..Len(q) : q[i] \in HexChars

\* re.match(r'^[a-f0-9]{32}$', query.lower())
IsMd5Query(q) ==
    /\ Len(q) = MD5_LENGTH
    /\ \A i \in 1..Len(q) : Lower(q)[i] \in HexChars

\* cache_key = f"{query.lower().strip()}:{max_results}"
\* A seeded slip: the key leaves max_results out.
CacheKeyQueryOnly(q, mr) == <<Strip(Lower(q)), 0>>

CacheKey(q, mr) == <<Strip(Lower(q)), mr>>

\* A seeded slip: an entry is still served when exactly the TTL has elapsed.
CacheFreshInclusive(t, cache_time) == t - cache_time <= CACHE_TTL

\* The test of the cache check: current_time - cache_time < self.cache_ttl
CacheFresh(t, cache_time) == t - cache_time < CACHE_TTL

\* del self.search_cache[cache_key]
CacheWithout(cache, key) == [k \in DOMAIN cache \ {key} |-> cache[k]]

\* A seeded slip: an empty result list is not cached.
CachePutNonEmpty(cache, key, data, t) ==
    IF data = <<>> THEN cache
    ELSE [k \in DOMAIN cache \cup {key} |->
             IF k = key THEN [data |-> data, time |-> t] ELSE cache[k]]

\* self.search_cache[cache_key] = (final_results, current_time)
CachePut(cache, key, data, t) ==
    [k \in DOMAIN cache \cup {key} |->
        IF k = key THEN [data |-> data, time |-> t] ELSE cache[k]]

\* _cleanup_cache at time t
CleanupCache(cache, t) ==
    [k \in {x \in DOMAIN cache : ~(t - cache[x].time > CACHE_TTL)} |-> cache[k]]

NoRet == [kind |-> "none", query |-> <<>>, max_results |-> 0, start |-> 0,
          result |-> <<>>, net |-> 0, entry_time |-> -1,
          repeat |-> FALSE, same |-> FALSE]

MAX_RETRIES == 1

ADAPTER_RETRIES == 3

\* HTTP requests one call of _search_mirror_async sends when every try ends in
\* a transport error: range(max_retries) passes of http_client.get, each of
\* them repeated by the session's Retry adapter.
RequestsOnTransportError == MAX_RETRIES * (1 + ADAPTER_RETRIES)

\* HTTP requests it sends when the mirror answers with a status the adapter
\* does not retry.
RequestsOnAnswer == MAX_RETRIES

\* Every mirror attempt of a call ended in a transport error.
AllTransportFailed(atts) ==
    /\ atts # <<>>
    /\ \A k \in 1..Len(atts) : atts[k].outcome = "transport"

\* A seeded slip: the loop over the ranked mirrors does not break on a result.
LoopRunningNoBreak(i, limit, res) == i <= limit

\* The mirror loop of search() makes another iteration: the slice is not
\* exhausted and no iteration has hit the break.
LoopRunning(i, limit, res) == i <= limit /\ res = <<>>

SearchInitVars ==
    /\ search_cache = <<>>
    /\ search_pc = "idle"
    /\ query = <<>>
    /\ max_results = 0
    /\ current_time = 0
    /\ entry_time = -1
    /\ prioritized_mirrors = <<>>
    /\ mirror_i = 0
    /\ search_results = <<>>
    /\ net_calls = 0
    /\ attempts = <<>>
    /\ ret = NoRet
    /\ n_searches = 0

\* ------------------------------------------------------------------------
\* Link resolver: LibGenSearcher.get_download_links
\* ------------------------------------------------------------------------

MAX_DOWNLOAD_MIRRORS == 5

EARLY_RETURN_LINKS == 8

EARLY_RETURN_MIRRORS == 2

MIRROR_LINK_CAP == 7

\* self.download_mirrors, by host
DownloadMirrors == <<"libgen.la", "libgen.li">>

\* The first hosts of the hard-coded other_mirrors list
OtherMirrors == <<"libgen.li", "libgen.gl", "libgen.vg">>

\* The kinds of link _get_additional_download_sources builds
AdditionalSources == <<"library_lol", "annas_archive">>

HtmlTypes == {"text/html"}

ApplicationTypes == {"application/pdf", "application/octet-stream"}

TextPlainTypes == {"text/plain"}

\* Answers to the HEAD request of _test_download_link; a missing
\* Content-Length header reads as 0
ProbeFile == [status |-> 200, content_type |-> "application/pdf", content_length |-> 200000]

ProbeHtml == [status |-> 200, content_type |-> "text/html", content_length |-> 5000]

ProbeEmpty == [status |-> 200, content_type |-> "application/octet-stream", content_length |-> 0]

ProbeMissing == [status |-> 404, content_type |-> "text/html", content_length |-> 0]

ProbeResponses == {ProbeFile, ProbeHtml, ProbeEmpty, ProbeMissing}

\* _test_download_link on the answer r
TestDownloadLink(r) ==
    /\ r.status = 200
    /\ \/ (r.content_type \notin HtmlTypes /\ r.content_length > 0)
       \/ r.content_type \in ApplicationTypes
       \/ r.content_type \in TextPlainTypes

\* The ads.php page of a mirror: its status and which anchors it carries
Pages == [status : {200, 404}, direct : BOOLEAN, get : BOOLEAN, alt : BOOLEAN]

\* A link of the returned list. `verified` records whether _test_download_link
\* was called on it and passed.
Link(type, host, path, verified) ==
    [type |-> type, url |-> <<host, path>>, verified |-> verified]

\* The direct_links block: every CDN anchor is appended, with the URL that
\* _resolve_download_link ends at when resolve is set; no test is made.
DirectLinks(m, page, resolve) ==
    IF page.direct
    THEN <<Link("direct_mirror", m, IF resolve THEN "cdn-final" ELSE "cdn", FALSE)>>
    ELSE <<>>

\* The tested links to the other mirrors, in list order
RECURSIVE MirrorLinks(_, _, _)
MirrorLinks(m, probe, i) ==
    IF i > Len(OtherMirrors) THEN <<>>
    ELSE LET om == OtherMirrors[i]
         IN  (IF om # m /\ TestDownloadLink(probe[om])
              THEN <<Link("mirror_download", om, "get.php", TRUE)>>
              ELSE <<>>) \o MirrorLinks(m, probe, i + 1)

\* The get.php block: the link itself if its test passes, then up to seven
\* tested links to other mirrors.
GetLinks(m, page, probe) ==
    IF page.get
    THEN (IF TestDownloadLink(probe[m])
          THEN <<Link("direct_download", m, "get.php", TRUE)>>
          ELSE <<>>) \o Take(MirrorLinks(m, probe, 1), MIRROR_LINK_CAP)
    ELSE <<>>

\* The file.php block: every alternative anchor is appended, with the URL that
\* _resolve_download_link ends at when resolve is set; no test is made.
AltLinks(m, page, resolve) ==
    IF page.alt
    THEN <<Link("file_download", m, IF resolve THEN "file-final" ELSE "file.php", FALSE)>>
    ELSE <<>>

\* _get_final_download_links(mirror, md5) on the page the mirror answers with
GetFinalDownloadLinks(m, page, probe, resolve) ==
    IF page.status # 200 THEN <<>>
    ELSE DirectLinks(m, page, resolve) \o GetLinks(m, page, probe)
            \o AltLinks(m, page, resolve)

\* The additional-source links whose test passes, in list order
RECURSIVE VerifiedAdditionalLinks(_, _)
VerifiedAdditionalLinks(probe, i) ==
    IF i > Len(AdditionalSources) THEN <<>>
    ELSE (IF TestDownloadLink(probe[AdditionalSources[i]])
          THEN <<Link(AdditionalSources[i], AdditionalSources[i], "main", TRUE)>>
          ELSE <<>>) \o VerifiedAdditionalLinks(probe, i + 1)

ResolveInitVars ==
    /\ resolve_final_urls = TRUE
    /\ resolve_pc = "idle"
    /\ mirror_index = 0
    /\ collected_links = <<>>
    /\ successful_mirrors = 0

\* ------------------------------------------------------------------------
\* Concurrent Fetcher: TrulyParallelFileHandler / ConcurrentFileHandler
\* ------------------------------------------------------------------------

MaxLinks == 3

\* Python's None; a value that may be None is <<>> or <<value>>
None == <<>>

\* headers.get('Content-Length') when the header is absent
NoHeader == <<>>

MIN_SIZE_BYTES == 104857

MAX_SIZE_BYTES == 52428800

FETCH_CAP == 5

\* The MIME types of VALID_EXTENSIONS
ValidMimes ==
    {"application/pdf", "application/epub+zip", "application/x-epub+zip",
     "application/x-mobipocket-ebook", "application/vnd.amazon.ebook",
     "image/vnd.djvu", "image/x-djvu", "text/plain", "application/msword",
     "application/vnd.openxmlformats-officedocument.wordprocessingml.document",
     "application/rtf", "text/rtf", "application/x-fictionbook+xml", "text/xml",
     "application/x-ms-reader", "application/vnd.palm",
     "application/x-palm-database", "application/vnd.ms-htmlhelp",
     "application/x-chm"}

GetExtensionFromMime(mime) == IF mime \in ValidMimes THEN <<mime>> ELSE None

\* What a server answers to the GET of a candidate: the status, the declared
\* Content-Length (<<n>>, or NoHeader when absent), the number of bytes streamed and the
\* type libmagic sniffs from them.
RespGood == [status |-> 200, content_length |-> NoHeader, body |-> 200000,
             mime |-> "application/pdf"]

RespHtml == [status |-> 200, content_length |-> <<150000>>, body |-> 150000,
             mime |-> "text/html"]

RespNotFound == [status |-> 404, content_length |-> <<512>>, body |-> 512,
                 mime |-> "text/html"]

Responses == {RespGood, RespHtml, RespNotFound}

\* A URL is the sequence of its parts; `x in url` of the source is membership.
Urls == {<<"libgen.li", "get.php">>, <<"example.org", "file">>}

FavoredDomains == {"cdn3.booksdl.lc", "libgen.la", "libgen.li"}

Links == [url : Urls, resp : Responses]

GetLinkPriority(link) ==
    IF \E d \in FavoredDomains : d \in SeqElems(link.url) THEN 1
    ELSE IF "get.php" \in SeqElems(link.url) \/ "download" \in SeqElems(link.url) THEN 2
    ELSE 3

RECURSIVE SelectPriority(_, _)
SelectPriority(links, p) ==
    IF links = <<>> THEN <<>>
    ELSE IF GetLinkPriority(Head(links)) = p
         THEN <<Head(links)>> \o SelectPriority(Tail(links), p)
         ELSE SelectPriority(Tail(links), p)

\* sorted() is stable: links of equal priority keep their order.
SortLinks(links) ==
    SelectPriority(links, 1) \o SelectPriority(links, 2) \o SelectPriority(links, 3)

\* A seeded slip: the number of bytes streamed is not compared with the minimum.
DownloadFileNoStreamedMinimum(i, r) ==
    IF r.status # 200 THEN None
    ELSE IF r.content_length # NoHeader /\ r.content_length[1] < MIN_SIZE_BYTES THEN None
    ELSE IF r.content_length # NoHeader /\ r.content_length[1] > MAX_SIZE_BYTES THEN None
    ELSE IF r.body > MAX_SIZE_BYTES THEN None
    ELSE IF GetExtensionFromMime(r.mime) = None THEN None
    ELSE <<[from |-> i, size |-> r.body, mime_type |-> r.mime]>>

\* _download_file_async / _download_file_sync on the response `r` of candidate i:
\* None, or <<the file>>.
DownloadFile(i, r) ==
    IF r.status # 200 THEN None
    ELSE IF r.content_length # NoHeader /\ r.content_length[1] < MIN_SIZE_BYTES THEN None
    ELSE IF r.content_length # NoHeader /\ r.content_length[1] > MAX_SIZE_BYTES THEN None
    ELSE IF r.body > MAX_SIZE_BYTES THEN None
    ELSE IF r.body < MIN_SIZE_BYTES THEN None
    ELSE IF GetExtensionFromMime(r.mime) = None THEN None
    ELSE <<[from |-> i, size |-> r.body, mime_type |-> r.mime]>>

\* A seeded slip: every candidate with a URL gets a task.
LaunchedNoCap(links) == {i \in 1..Len(links) : links[i].url # <<>>}

\* Candidates that get a task: the first five of the sorted list with a URL.
Launched(links) == {i \in 1..Min(FETCH_CAP, Len(links)) : links[i].url # <<>>}

ConcInitVars ==
    /\ calls = <<>>
    /\ recorded = <<>>
    /\ fetched_at = <<>>
    /\ last_hit = <<>>

LinkTestInitVars ==
    /\ head_answer = <<>>
    /\ get_answer = <<>>
    /\ link_requests = <<>>
    /\ link_ok = <<>>

ParseInitVars ==
    /\ table = <<>>
    /\ parsed = <<>>
    /\ parse_pc = "idle"

SendInitVars ==
    /\ send_pc = "idle"
    /\ send_resp = <<>>
    /\ send_attempt = 0
    /\ file_data = <<>>

FetchInitVars ==
    /\ handler = "truly_parallel"
    /\ download_links = <<>>
    /\ sorted_links = <<>>
    /\ task = <<>>
    /\ work = <<>>
    /\ task_result = <<>>
    /\ done = {}
    /\ cancel_i = 0
    /\ fetch_result = None
    /\ fetch_pc = "idle"

InitFetch ==
    /\ SendInitVars
    /\ LinkTestInitVars
    /\ ConcInitVars
    /\ ParseInitVars
    /\ ResolveInitVars
    /\ DedupInitVars
    /\ RegInitVars
    /\ SearchInitVars
    /\ handler \in {"truly_parallel", "concurrent"}
    /\ download_links \in SeqsOf(Links, 0, MaxLinks)
    /\ sorted_links = <<>>
    /\ task = <<>>
    /\ work = <<>>
    /\ task_result = <<>>
    /\ done = {}
    /\ cancel_i = 0
    /\ fetch_result = None
    /\ fetch_pc = "call"

\* get_best_file_from_links up to `await asyncio.wait(...)`: sort, create the tasks.
FetchLaunch ==
    /\ fetch_pc = "call"
    /\ LET sl == SortLinks(download_links)
       IN  IF download_links = <<>> \/ Launched(sl) = {}
           THEN /\ fetch_pc' = "returned"
                /\ fetch_result' = None
                /\ UNCHANGED <<sorted_links, task, work, task_result>>
           ELSE /\ sorted_links' = sl
                /\ task' = [i \in Launched(sl) |-> "pending"]
                /\ work' = [i \in Launched(sl) |-> "running"]
                /\ task_result' = [i \in Launched(sl) |-> None]
                /\ fetch_pc' = "waiting"
                /\ UNCHANGED fetch_result
    /\ UNCHANGED <<handler, download_links, done, cancel_i, notFetchVars>>

\* A download task runs to its end and returns the file or None.
TaskComplete(i) ==
    /\ fetch_pc \in {"waiting", "cancelling"}
    /\ i \in DOMAIN task
    /\ task[i] = "pending"
    /\ task' = [task EXCEPT ![i] = "done"]
    /\ work' = [work EXCEPT ![i] = "finished"]
    /\ task_result' = [task_result EXCEPT ![i] = DownloadFile(i, sorted_links[i].resp)]
    /\ UNCHANGED <<handler, download_links, sorted_links, done, cancel_i,
                   fetch_result, fetch_pc, notFetchVars>>

\* asyncio.wait(return_when=FIRST_COMPLETED, timeout=...) returns: with the
\* tasks completed so far, or with an empty `done` set when the timeout fired.
WaitReturns ==
    /\ fetch_pc = "waiting"
    /\ done' = {i \in DOMAIN task : task[i] = "done"}
    /\ cancel_i' = 1
    /\ fetch_pc' = "cancelling"
    /\ UNCHANGED <<handler, download_links, sorted_links, task, work, task_result,
                   fetch_result, notFetchVars>>

\* What task.cancel() followed by `await task` leaves of the download behind a
\* task: the aiohttp request is torn down; the thread asyncio.to_thread started
\* cannot be interrupted and keeps downloading.
WorkAfterCancel(h, w) ==
    IF h = "truly_parallel" THEN "stopped" ELSE w

\* One iteration of "for task, _ in download_tasks: if task not in done: cancel".
CancelStep ==
    /\ fetch_pc = "cancelling"
    /\ IF cancel_i \in DOMAIN task
       THEN /\ IF cancel_i \notin done /\ task[cancel_i] = "pending"
               THEN /\ task' = [task EXCEPT ![cancel_i] = "cancelled"]
                    /\ work' = [work EXCEPT ![cancel_i] =
                                    WorkAfterCancel(handler, work[cancel_i])]
               ELSE UNCHANGED <<task, work>>
            /\ cancel_i' = cancel_i + 1
            /\ UNCHANGED fetch_pc
       ELSE /\ fetch_pc' = "collect"
            /\ UNCHANGED <<task, work, cancel_i>>
    /\ UNCHANGED <<handler, download_links, sorted_links, task_result, done,
                   fetch_result, notFetchVars>>

\* "Get the first successful result": the first task of `done`, in launch
\* order, whose result is not None.
FirstSuccessful(d, res) ==
    IF \E i \in d : res[i] # None
    THEN res[CHOOSE i \in d : res[i] # None /\ \A j \in d : res[j] # None => i <= j]
    ELSE None

Collect ==
    /\ fetch_pc = "collect"
    /\ fetch_result' = FirstSuccessful(done, task_result)
    /\ fetch_pc' = "returned"
    /\ UNCHANGED <<handler, download_links, sorted_links, task, work, task_result,
                   done, cancel_i, notFetchVars>>

\* The thread of a cancelled ConcurrentFileHandler task reaches the end of
\* _download_file_sync; nobody reads its result.
ThreadFinishes(i) ==
    /\ i \in DOMAIN task
    /\ task[i] = "cancelled"
    /\ work[i] = "running"
    /\ work' = [work EXCEPT ![i] = "finished"]
    /\ UNCHANGED <<handler, download_links, sorted_links, task, task_result, done,
                   cancel_i, fetch_result, fetch_pc, notFetchVars>>

NextFetch ==
    \/ FetchLaunch
    \/ \E i \in 1..FETCH_CAP : TaskComplete(i)
    \/ WaitReturns
    \/ CancelStep
    \/ Collect
    \/ \E i \in 1..FETCH_CAP : ThreadFinishes(i)

SpecFetch == InitFetch /\ [][NextFetch]_vars

\* The launched candidates whose response passes every check.
ValidCandidates == {i \in DOMAIN task : DownloadFile(i, sorted_links[i].resp) # None}

\* C1 (as claimed): with N >= 2 candidates of which exactly one passes the
\* status, size and type checks, get_best_file_from_links returns that
\* candidate's file, whatever the order in which the tasks complete (the wait
\* ended because a task completed, not because the global timeout fired).
C1_ReturnsTheOnlyValidCandidate ==
    (fetch_pc = "returned" /\ Len(download_links) >= 2
        /\ Cardinality(ValidCandidates) = 1 /\ done # {})
    => \E i \in ValidCandidates : fetch_result = DownloadFile(i, sorted_links[i].resp)

\* C2 (as claimed): when get_best_file_from_links has returned, no launched
\* candidate's download is still running.
C2_NoDownloadRunsAfterReturn ==
    fetch_pc = "returned" => \A i \in DOMAIN work : work[i] # "running"


\* What get_best_file_from_links returns when tasks completed and none of
\* them produced a valid file
NoValidFileResult == None

\* The wait ended on the global timeout: tasks were launched, none completed.
TimedOut == DOMAIN task # {} /\ done = {}

\* C16 (as claimed): a race that ends on the global timeout does not end with
\* the result of a race in which no candidate passed validation.
C16_TimeoutDiffersFromNoValidFile ==
    (fetch_pc = "returned" /\ TimedOut) => fetch_result # NoValidFileResult

\* The launch of the race on lists longer than the cap: sorting and task
\* creation of get_best_file_from_links, for every list of up to
\* MaxLaunchLinks candidates.

MaxLaunchLinks == 6

\* Candidate URLs of each priority class, two of the first, and a link
\* without URL
LaunchUrls == {<<"libgen.li", "get.php">>, <<"cdn3.booksdl.lc", "file">>,
               <<"example.org", "download">>, <<"example.org", "file">>, <<>>}

LaunchLinks == [url : LaunchUrls, resp : {RespGood}]

InitLaunch ==
    /\ SendInitVars
    /\ LinkTestInitVars
    /\ ConcInitVars
    /\ ParseInitVars
    /\ ResolveInitVars
    /\ DedupInitVars
    /\ RegInitVars
    /\ SearchInitVars
    /\ handler = "truly_parallel"
    /\ download_links \in SeqsOf(LaunchLinks, 0, MaxLaunchLinks)
    /\ sorted_links = <<>>
    /\ task = <<>>
    /\ work = <<>>
    /\ task_result = <<>>
    /\ done = {}
    /\ cancel_i = 0
    /\ fetch_result = None
    /\ fetch_pc = "call"

NextLaunch == FetchLaunch

SpecLaunch == InitLaunch /\ [][NextLaunch]_vars

\* The links of priority class p, in their order in the list
OfPriority(links, p) ==
    FilterSeq(links, {l \in SeqElems(links) : GetLinkPriority(l) = p})

\* C23: when the tasks have been created, the candidates are in the stable
\* priority order of the given list (classes ascending, the links of a class
\* in their given order), each of the first five positions that has a URL
\* carries exactly one task, and no position after the fifth carries one.
C23_TasksOnlyForFirstFiveByPriority ==
    fetch_pc = "waiting" =>
        /\ Len(sorted_links) = Len(download_links)
        /\ \A p \in 1..3 : OfPriority(sorted_links, p) = OfPriority(download_links, p)
        /\ \A i, j \in 1..Len(sorted_links) :
              i < j => GetLinkPriority(sorted_links[i]) <= GetLinkPriority(sorted_links[j])
        /\ DOMAIN task = {i \in 1..Len(sorted_links) :
                             i <= FETCH_CAP /\ sorted_links[i].url # <<>>}
        /\ DOMAIN work = DOMAIN task

\* Six candidates with a URL were given in an order the sort changed; the
\* sixth of the sorted list has no task.
C23_Witness ==
    /\ fetch_pc = "waiting"
    /\ Len(sorted_links) = 6
    /\ sorted_links # download_links
    /\ \A i \in 1..6 : sorted_links[i].url # <<>>
    /\ DOMAIN task = 1..5

\* ------------------------------------------------------------------------
\* The download of _send_book_file: the parallel race first, FileHandler's
\* sequential get_best_file_from_links when the race yields nothing.
\* One candidate link is followed; the server's answer is drawn at every
\* request.
\* ------------------------------------------------------------------------

FILE_RETRY_ATTEMPTS == 2

CORRUPT_SIZE_BYTES == 1024

\* FileHandler.VALID_EXTENSIONS, in the order of the dict
VALID_EXTENSIONS ==
    << [ext |-> <<"p", "d", "f">>, mimes |-> {"application/pdf"}],
       [ext |-> <<"e", "p", "u", "b">>,
        mimes |-> {"application/epub+zip", "application/x-epub+zip"}],
       [ext |-> <<"m", "o", "b", "i">>,
        mimes |-> {"application/x-mobipocket-ebook", "application/vnd.amazon.ebook"}],
       [ext |-> <<"a", "z", "w", "3">>, mimes |-> {"application/vnd.amazon.ebook"}],
       [ext |-> <<"d", "j", "v", "u">>, mimes |-> {"image/vnd.djvu", "image/x-djvu"}],
       [ext |-> <<"t", "x", "t">>, mimes |-> {"text/plain"}],
       [ext |-> <<"d", "o", "c">>, mimes |-> {"application/msword"}],
       [ext |-> <<"d", "o", "c", "x">>,
        mimes |-> {"application/vnd.openxmlformats-officedocument.wordprocessingml.document"}],
       [ext |-> <<"r", "t", "f">>, mimes |-> {"application/rtf", "text/rtf"}],
       [ext |-> <<"f", "b", "2">>, mimes |-> {"application/x-fictionbook+xml", "text/xml"}],
       [ext |-> <<"l", "i", "t">>, mimes |-> {"application/x-ms-reader"}],
       [ext |-> <<"p", "d", "b">>,
        mimes |-> {"application/vnd.palm", "application/x-palm-database"}],
       [ext |-> <<"c", "h", "m">>,
        mimes |-> {"application/vnd.ms-htmlhelp", "application/x-chm"}] >>

ValidExtensions == {VALID_EXTENSIONS[k].ext : k \in 1..Len(VALID_EXTENSIONS)}

\* A file name is the list of its '.'-separated parts; `'.' in filename` is
\* "more than one part" and filename.split('.')[-1] is the last part.
HasDot(filename) == Len(filename) > 1

LastPart(filename) == filename[Len(filename)]

\* _extract_filename_from_url found no name with a dot
DefaultName == << <<"b", "o", "o", "k">> >>

PdfName == << <<"b">>, <<"P", "d", "f">> >>

PhpName == << <<"a", "d", "s">>, <<"p", "h", "p">> >>

UrlFilenames == {DefaultName, PdfName, PhpName}

\* clean_title[:50]: the title without punctuation, so without a dot
ExpectedFilename == << <<"T", "i", "t", "l", "e">> >>

\* mimetypes.guess_extension, without its leading dot
GuessExtension(mime) ==
    CASE mime = "text/html" -> << <<"h", "t", "m", "l">> >>
      [] mime = "application/pdf" -> << <<"p", "d", "f">> >>
      [] OTHER -> None

RECURSIVE FirstNameExtension(_)
FirstNameExtension(filenames) ==
    IF filenames = <<>> THEN None
    ELSE IF Head(filenames) # None /\ HasDot(Head(filenames))
            /\ Lower(LastPart(Head(filenames))) \in ValidExtensions
         THEN <<Lower(LastPart(Head(filenames)))>>
         ELSE FirstNameExtension(Tail(filenames))

\* FileHandler._get_extension_from_mime: by detected type, else by the
\* extension of the URL's or the expected file name, else by mimetypes.
GetExtensionFromMimeAndNames(mime, url_filename, expected_filename) ==
    IF \E k \in 1..Len(VALID_EXTENSIONS) : mime \in VALID_EXTENSIONS[k].mimes
    THEN <<VALID_EXTENSIONS[CHOOSE k \in 1..Len(VALID_EXTENSIONS) :
                               /\ mime \in VALID_EXTENSIONS[k].mimes
                               /\ \A j \in 1..(k - 1) :
                                     mime \notin VALID_EXTENSIONS[j].mimes].ext>>
    ELSE IF FirstNameExtension(<<url_filename, expected_filename>>) # None
         THEN FirstNameExtension(<<url_filename, expected_filename>>)
    ELSE IF GuessExtension(mime) # None /\ GuessExtension(mime)[1] \in ValidExtensions
         THEN GuessExtension(mime)
    ELSE None

\* Sizes on both sides of the two limits
SendSizes == {MIN_SIZE_BYTES - 1, MIN_SIZE_BYTES, 200000,
              MAX_SIZE_BYTES, MAX_SIZE_BYTES + 1}

\* What a server answers to a download request: as for the race, with the
\* Content-Type it declares and the file name the URL and headers give.
SendResponses ==
    [status : {200, 404},
     content_length : {NoHeader} \cup {<<n>> : n \in SendSizes},
     body : SendSizes,
     mime : {"application/pdf", "text/html"},
     content_type : {"application/pdf", "text/html"},
     url_filename : UrlFilenames]

\* FileHandler._download_file on a 200 response: None, or <<the download>>.
DownloadFileSequential(r) ==
    IF r.content_length # NoHeader /\ r.content_length[1] < MIN_SIZE_BYTES THEN None
    ELSE IF r.content_length # NoHeader /\ r.content_length[1] > MAX_SIZE_BYTES THEN None
    ELSE IF r.body > MAX_SIZE_BYTES THEN None
    ELSE <<[size |-> r.body, mime_type |-> r.content_type, filename |-> r.url_filename,
            detected |-> r.mime]>>

\* FileHandler._validate_file on a download `d`; magic.from_buffer answers
\* d.detected. None when invalid, <<the file>> when valid.
ValidateFile(d, expected_filename) ==
    IF d.size < MIN_SIZE_BYTES THEN None
    ELSE IF d.size > MAX_SIZE_BYTES THEN None
    ELSE LET extension == GetExtensionFromMimeAndNames(d.detected, d.filename,
                                                       expected_filename)
         IN  IF extension = None THEN None
             ELSE IF extension[1] \notin ValidExtensions THEN None
             ELSE IF d.size < CORRUPT_SIZE_BYTES THEN None
             ELSE <<[from |-> 1, size |-> d.size, mime_type |-> d.detected,
                     extension |-> extension[1]]>>

\* FileHandler.download_and_validate_file on a 200 response.
DownloadAndValidateFile(r, expected_filename) ==
    IF DownloadFileSequential(r) = None THEN None
    ELSE ValidateFile(DownloadFileSequential(r)[1], expected_filename)

InitSend ==
    /\ DedupInitVars
    /\ FetchInitVars
    /\ RegInitVars
    /\ SearchInitVars
    /\ ResolveInitVars
    /\ ParseInitVars
    /\ LinkTestInitVars
    /\ ConcInitVars
    /\ send_pc = "parallel"
    /\ send_resp = <<>>
    /\ send_attempt = 0
    /\ file_data = None

\* truly_parallel_file_handler.get_best_file_from_links on the candidate: its
\* task's result, then the fallback when that is None.
ParallelDownload ==
    /\ send_pc = "parallel"
    /\ \E r \in SendResponses :
          /\ send_resp' = <<r>>
          /\ file_data' = DownloadFile(1, r)
          /\ send_pc' = IF DownloadFile(1, r) # None THEN "done" ELSE "fallback"
    /\ UNCHANGED <<send_attempt, notSendVars>>

\* The race ends on its global timeout before the task completes: None.
ParallelTimeout ==
    /\ send_pc = "parallel"
    /\ file_data' = None
    /\ send_pc' = "fallback"
    /\ UNCHANGED <<send_resp, send_attempt, notSendVars>>

\* One pass of the retry loop of FileHandler._download_file, followed on a
\* 200 response by _validate_file: a status other than 200 is retried while
\* passes remain, every other outcome ends the download.
FallbackDownload ==
    /\ send_pc = "fallback"
    /\ \E r \in SendResponses :
          /\ send_resp' = <<r>>
          /\ IF r.status # 200
             THEN IF send_attempt < FILE_RETRY_ATTEMPTS - 1
                  THEN /\ send_attempt' = send_attempt + 1
                       /\ UNCHANGED <<send_pc, file_data>>
                  ELSE /\ file_data' = None
                       /\ send_pc' = "done"
                       /\ UNCHANGED send_attempt
             ELSE /\ file_data' = DownloadAndValidateFile(r, ExpectedFilename)
                  /\ send_pc' = "done"
                  /\ UNCHANGED send_attempt
    /\ UNCHANGED notSendVars

NextSend ==
    \/ ParallelDownload
    \/ ParallelTimeout
    \/ FallbackDownload

SpecSend == InitSend /\ [][NextSend]_vars

\* C12: a file returned by either handler has the size of the body that was
\* streamed, and that size lies within [MIN_SIZE_BYTES, MAX_SIZE_BYTES],
\* with or without a Content-Length header and whether or not the header
\* equals the number of bytes streamed.
C12_ReturnedFileSizeWithinLimits ==
    file_data # None =>
        /\ file_data[1].size = send_resp[1].body
        /\ file_data[1].size >= MIN_SIZE_BYTES
        /\ file_data[1].size <= MAX_SIZE_BYTES

\* A file was returned although the header announced another size than the
\* one streamed.
C12_Witness ==
    /\ file_data # None
    /\ send_resp[1].content_length # NoHeader
    /\ send_resp[1].content_length[1] # send_resp[1].body

\* C13 (as claimed): a body whose detected type is not one of the document
\* types is never returned as a file, by the race or by the fallback handler.
C13_HtmlBodyNeverReturned ==
    file_data # None => send_resp[1].mime \in ValidMimes

\* ------------------------------------------------------------------------
\* Deduplicator: specification and claims
\* ------------------------------------------------------------------------

InitDedup ==
    /\ ResolveInitVars
    /\ FetchInitVars
    /\ SendInitVars
    /\ LinkTestInitVars
    /\ ConcInitVars
    /\ ParseInitVars
    /\ RegInitVars
    /\ SearchInitVars
    /\ results \in SeqsOf(Books, 0, MaxBooks)
    /\ unique_results = <<>>
    /\ dedup_kept = <<>>
    /\ dedup_pc = "call"

Dedup ==
    /\ dedup_pc = "call"
    /\ unique_results' = RemoveDuplicates(results)
    /\ dedup_kept' = RemoveDuplicatesKept(results)
    /\ dedup_pc' = "returned"
    /\ UNCHANGED <<results, notDedupVars>>

NextDedup == Dedup

SpecDedup == InitDedup /\ [][NextDedup]_vars

\* First index of the input carrying md5 h (0 when none does).
FirstWithMd5(books, h) ==
    IF \E i \in 1..Len(books) : books[i].md5 = h
    THEN CHOOSE i \in 1..Len(books) :
            /\ books[i].md5 = h
            /\ \A j \in 1..(i - 1) : books[j].md5 # h
    ELSE 0

\* C6: the output of _remove_duplicates holds no two records with the same
\* non-empty md5, and a record kept for an md5 is the first input record
\* carrying that md5, unchanged.
C6_DedupUniqueMd5FirstWins ==
    dedup_pc = "returned" =>
        /\ \A a, b \in 1..Len(unique_results) :
              (a # b /\ unique_results[a].md5 # NoMd5)
                  => unique_results[a].md5 # unique_results[b].md5
        /\ \A k \in 1..Len(unique_results) :
              unique_results[k].md5 # NoMd5 =>
                  /\ dedup_kept[k] = FirstWithMd5(results, unique_results[k].md5)
                  /\ unique_results[k] = results[dedup_kept[k]]

\* Witness of C6: an md5 occurs twice in the input with different authors and
\* the returned record is the first of the two.
C6_Witness ==
    /\ dedup_pc = "returned"
    /\ \E i, j \in 1..Len(results) :
          /\ i < j
          /\ results[i].md5 # NoMd5
          /\ results[i].md5 = results[j].md5
          /\ results[i].author # results[j].author
          /\ \E k \in 1..Len(unique_results) : dedup_kept[k] = i
          /\ \A k \in 1..Len(unique_results) : dedup_kept[k] # j

\* C34 (as claimed): every input record has a representative in the output:
\* a record with the same non-empty md5 or with the same case-folded
\* (title, author) pair.
C34_EveryRecordHasRepresentative ==
    dedup_pc = "returned" =>
        \A i \in 1..Len(results) :
            \E k \in 1..Len(unique_results) :
                \/ (results[i].md5 # NoMd5 /\ unique_results[k].md5 = results[i].md5)
                \/ BookKey(unique_results[k]) = BookKey(results[i])

\* C7 (as claimed): a record with a non-empty md5 is dropped only if an
\* earlier record has the same md5.
C7_Md5RecordDroppedOnlyBySameMd5 ==
    dedup_pc = "returned" =>
        \A i \in 1..Len(results) :
            (results[i].md5 # NoMd5 /\ i \notin SeqElems(dedup_kept))
                => \E j \in 1..(i - 1) : results[j].md5 = results[i].md5

\* ------------------------------------------------------------------------
\* Mirror registry: specification and claims
\* ------------------------------------------------------------------------

NumMirrors == 4

InitRegistry ==
    /\ ResolveInitVars
    /\ DedupInitVars
    /\ FetchInitVars
    /\ SendInitVars
    /\ LinkTestInitVars
    /\ ConcInitVars
    /\ ParseInitVars
    /\ SearchInitVars
    /\ now = StartTime
    /\ libgen_mirrors = [i \in 1..NumMirrors |-> i]
    /\ failed_mirrors = {}
    /\ mirror_reliability = <<>>
    /\ mirror_response_times = <<>>
    /\ ranked = <<>>
    /\ readmitted = {}
    /\ consec_failures = [i \in 1..NumMirrors |-> 0]
    /\ n_outcomes = 0

\* Time passes.
Tick ==
    \E d \in TickSteps :
        /\ now + d <= MaxTime
        /\ now' = now + d

RegTick ==
    /\ Tick
    /\ ranked' = <<>>
    /\ readmitted' = {}
    /\ UNCHANGED <<libgen_mirrors, failed_mirrors, mirror_reliability,
                   mirror_response_times, consec_failures, n_outcomes, notRegVars>>

\* self._update_mirror_reliability(m, success, rt)
UpdateMirrorReliability(m, success, rt) ==
    /\ n_outcomes' = n_outcomes + 1
    /\ mirror_reliability' = ReliabilityAfterUpdate(mirror_reliability, m, success, now)
    /\ failed_mirrors' = FailedAfterUpdate(failed_mirrors, m, success)
    /\ mirror_response_times' = ResponseTimesAfterUpdate(mirror_response_times, m, rt)
    /\ consec_failures' = [consec_failures EXCEPT ![m] = IF success THEN 0 ELSE @ + 1]

RecordOutcome ==
    /\ n_outcomes < MaxOutcomes
    /\ \E m \in SeqElems(libgen_mirrors), success \in BOOLEAN, rt \in ResponseTimes :
          UpdateMirrorReliability(m, success, rt)
    /\ ranked' = <<>>
    /\ readmitted' = {}
    /\ UNCHANGED <<now, libgen_mirrors, notRegVars>>

\* self._get_prioritized_mirrors()
PrioritizeMirrors ==
    LET r == GetPrioritizedMirrors(libgen_mirrors, failed_mirrors,
                                   mirror_reliability, mirror_response_times, now)
    IN  /\ ranked' = r.list
        /\ failed_mirrors' = r.failed
        /\ readmitted' = failed_mirrors \ r.failed

RankedMirrors ==
    /\ PrioritizeMirrors
    /\ UNCHANGED <<now, libgen_mirrors, mirror_reliability, mirror_response_times,
                   consec_failures, n_outcomes, notRegVars>>

\* self._get_mirror_status(): it calls _get_prioritized_mirrors for the length
\* of the list, then reads the registry.
GetMirrorStatus ==
    /\ PrioritizeMirrors
    /\ UNCHANGED <<now, libgen_mirrors, mirror_reliability, mirror_response_times,
                   consec_failures, n_outcomes, notRegVars>>

NextRegistry ==
    \/ RegTick
    \/ RecordOutcome
    \/ RankedMirrors
    \/ GetMirrorStatus

SpecRegistry == InitRegistry /\ [][NextRegistry]_vars

\* A mirror is in cooldown: in the failed set, and the window since its last
\* failure has not elapsed.
InCooldown(m) ==
    /\ m \in failed_mirrors
    /\ now - LastFailure(mirror_reliability, m) <= COOLDOWN_SECONDS

C10_MirrorReappearsAfterCooldown ==
    [][ranked' # <<>> =>
          \A m \in failed_mirrors :
              (now - LastFailure(mirror_reliability, m) > COOLDOWN_SECONDS)
                  => (m \in SeqElems(ranked') /\ m \notin failed_mirrors')]_vars

\* Witness of C10: a call took a mirror back whose failure is more than 300 s old.
C10_Witness ==
    \E m \in readmitted :
        /\ now - LastFailure(mirror_reliability, m) > COOLDOWN_SECONDS
        /\ m \in SeqElems(ranked)
        /\ m \notin failed_mirrors

\* C31 (as claimed): _get_prioritized_mirrors and _get_mirror_status leave the
\* failed set and the reliability and latency records unchanged, and only a
\* recorded outcome changes them.
C31_ReadsLeaveRegistryUnchanged ==
    [][/\ (RankedMirrors \/ GetMirrorStatus) =>
             UNCHANGED <<failed_mirrors, mirror_reliability, mirror_response_times>>
       /\ ~UNCHANGED <<failed_mirrors, mirror_reliability, mirror_response_times>>
             => n_outcomes' = n_outcomes + 1]_vars

\* C31 (amended): the reliability and latency records change only when an
\* outcome is recorded; _get_prioritized_mirrors and _get_mirror_status leave
\* them unchanged but remove from the failed set exactly the mirrors whose
\* last failure is more than 300 s old, and add none.
C31_ReadsOnlyReadmitCooledMirrors ==
    [][/\ (RankedMirrors \/ GetMirrorStatus) =>
             /\ UNCHANGED <<mirror_reliability, mirror_response_times>>
             /\ failed_mirrors' =
                   {m \in failed_mirrors :
                       ~CooldownElapsed(now, mirror_reliability, m)}
       /\ ~UNCHANGED <<mirror_reliability, mirror_response_times>>
             => n_outcomes' = n_outcomes + 1]_vars

\* A read took one mirror back from the failed set and left another in it.
C31_Witness ==
    /\ readmitted # {}
    /\ failed_mirrors # {}
    /\ ranked # <<>>

\* C21: in every registry state each mirror's success_rate is a fraction
\* within [0, 1]: a recorded mirror has 0 <= successful_requests <=
\* total_requests with total_requests >= 1, an unrecorded one the default 1/2.
C21_SuccessRateWithinUnitInterval ==
    \A m \in SeqElems(libgen_mirrors) :
        /\ SuccessRate(mirror_reliability, m)[2] > 0
        /\ SuccessRate(mirror_reliability, m)[1] >= 0
        /\ SuccessRate(mirror_reliability, m)[1] <= SuccessRate(mirror_reliability, m)[2]
        /\ m \in DOMAIN mirror_reliability =>
              mirror_reliability[m].successful_requests
                 <= mirror_reliability[m].total_requests

\* A mirror with a success and a failure on record: its rate is strictly
\* between 0 and 1.
C21_Witness ==
    \E m \in DOMAIN mirror_reliability :
        /\ mirror_reliability[m].successful_requests >= 1
        /\ mirror_reliability[m].successful_requests
              < mirror_reliability[m].total_requests

\* ------------------------------------------------------------------------
\* Search: specification and claims
\* ------------------------------------------------------------------------

MaxSearches == 2

\* The configured mirror list of the searcher under study
SearchMirrors == <<1, 2>>

\* Response times measured for a failed request (ms)
FailedResponseTimes == {3000}

QueryPy == <<"P", "y">>

QueryPyPadded == <<"p", "y", " ">>

QueryHex == [i \in 1..MD5_LENGTH |-> IF i % 2 = 0 THEN "A" ELSE "b"]

Queries == {QueryPy, QueryPyPadded, QueryHex}

MaxResultsChoices == {1, 2}

BookA == [md5 |-> "m1", title |-> <<"T">>, author |-> <<"A">>]

BookA2 == [md5 |-> "m1", title |-> <<"t", " ">>, author |-> <<"B">>]

BookB == [md5 |-> "m2", title |-> <<"T">>, author |-> <<"B">>]

\* What _parse_search_results may yield from a mirror's answer (non-empty)
ResultLists == {<<BookA, BookA2, BookB>>, <<BookB>>}

InitSearch ==
    /\ DedupInitVars
    /\ FetchInitVars
    /\ SendInitVars
    /\ LinkTestInitVars
    /\ ConcInitVars
    /\ ParseInitVars
    /\ now = StartTime
    /\ libgen_mirrors = SearchMirrors
    /\ failed_mirrors = {}
    /\ mirror_reliability = <<>>
    /\ mirror_response_times = <<>>
    /\ ranked = <<>>
    /\ readmitted = {}
    /\ consec_failures = [i \in SeqElems(SearchMirrors) |-> 0]
    /\ n_outcomes = 0
    /\ SearchInitVars
    /\ ResolveInitVars

\* Time passes, while a call is in progress or still to come.
SearchTick ==
    /\ (n_searches < MaxSearches \/ search_pc # "idle")
    /\ Tick
    /\ UNCHANGED <<libgen_mirrors, failed_mirrors, mirror_reliability,
                   mirror_response_times, ranked, readmitted, consec_failures,
                   n_outcomes, searchVars, notRegSearchVars>>

\* The call that `ret` describes was made with the same arguments as a call
\* (q, mr) made now.
SameCall(q, mr) ==
    /\ ret.kind # "none"
    /\ Len(ret.query) = Len(q)
    /\ ret.query = q
    /\ ret.max_results = mr

\* The observation of a call that returns `result`. `repeat` tells whether it
\* repeats the call before it within the TTL, `same` whether it returned the
\* same list as that call.
Returned(kind, q, mr, start, result, net, etime) ==
    ret' = [kind |-> kind, query |-> q, max_results |-> mr, start |-> start,
            result |-> result, net |-> net, entry_time |-> etime,
            repeat |-> (SameCall(q, mr) /\ start - ret.start < CACHE_TTL),
            same |-> (SameCall(q, mr) /\ result = ret.result)]

\* The mock book entry of an md5 query
MockBookEntry(q) ==
    [md5 |-> q, title |-> <<"Book with MD5: ", q>>, author |-> <<"Unknown">>]

\* search(q, mr) with a 32-hex query: get_download_links is called at once,
\* which requests the ads.php page of the first download mirrors; nothing is
\* read from or written to the cache.
SearchMd5 ==
    /\ search_pc = "idle"
    /\ n_searches < MaxSearches
    /\ \E q \in Queries, mr \in MaxResultsChoices, found \in BOOLEAN,
          pages \in 1..Min(MAX_DOWNLOAD_MIRRORS, Len(DownloadMirrors)) :
          /\ IsMd5Query(q)
          /\ Returned("md5", q, mr, now,
                      IF found
                      THEN <<MockBookEntry(q)>>
                      ELSE <<>>,
                      pages, -1)
    /\ n_searches' = n_searches + 1
    /\ UNCHANGED <<search_cache, search_pc, query, max_results, current_time,
                   entry_time, prioritized_mirrors, mirror_i, search_results,
                   net_calls, attempts, regVars, notRegSearchVars>>

\* search(q, mr) with a free-text query whose cache entry is fresh: the cached
\* list is returned.
SearchCacheHit ==
    /\ search_pc = "idle"
    /\ n_searches < MaxSearches
    /\ \E q \in Queries, mr \in MaxResultsChoices :
          LET key == CacheKey(q, mr)
          IN  /\ ~IsMd5Query(q)
              /\ key \in DOMAIN search_cache
              /\ CacheFresh(now, search_cache[key].time)
              /\ Returned("hit", q, mr, now, search_cache[key].data, 0,
                          search_cache[key].time)
    /\ n_searches' = n_searches + 1
    /\ UNCHANGED <<search_cache, search_pc, query, max_results, current_time,
                   entry_time, prioritized_mirrors, mirror_i, search_results,
                   net_calls, attempts, regVars, notRegSearchVars>>

\* search(q, mr) with a free-text query and no fresh cache entry, up to the
\* first mirror attempt: an expired entry is deleted and the mirrors are ranked.
SearchCacheMiss ==
    /\ search_pc = "idle"
    /\ n_searches < MaxSearches
    /\ \E q \in Queries, mr \in MaxResultsChoices :
          LET key == CacheKey(q, mr)
              r == GetPrioritizedMirrors(libgen_mirrors, failed_mirrors,
                                         mirror_reliability, mirror_response_times, now)
          IN  /\ ~IsMd5Query(q)
              /\ ~(key \in DOMAIN search_cache /\ CacheFresh(now, search_cache[key].time))
              /\ entry_time' = IF key \in DOMAIN search_cache
                               THEN search_cache[key].time ELSE -1
              /\ search_cache' = CacheWithout(search_cache, key)
              /\ query' = q
              /\ max_results' = mr
              /\ current_time' = now
              /\ prioritized_mirrors' = r.list
              /\ failed_mirrors' = r.failed
    /\ mirror_i' = 1
    /\ search_results' = <<>>
    /\ net_calls' = 0
    /\ attempts' = <<>>
    /\ search_pc' = "trying"
    /\ n_searches' = n_searches + 1
    /\ UNCHANGED <<now, libgen_mirrors, mirror_reliability, mirror_response_times,
                   ranked, readmitted, consec_failures, n_outcomes, ret,
                   notRegSearchVars>>

\* A seeded slip: the loop runs over the whole ranked list.
AttemptLimitWholeList == Len(prioritized_mirrors)

\* The number of mirrors of prioritized_mirrors[:5]
AttemptLimit == Min(SEARCH_MIRROR_CAP, Len(prioritized_mirrors))

\* The bookkeeping of one iteration on prioritized_mirrors[mirror_i] that ends
\* with `outcome` after `n` HTTP requests on the wire, made by MAX_RETRIES
\* calls of http_client.get.
Attempted(outcome, n) ==
    /\ attempts' = Append(attempts, [mirror |-> prioritized_mirrors[mirror_i],
                                     outcome |-> outcome, requests |-> n])
    /\ net_calls' = net_calls + MAX_RETRIES

\* One iteration of the mirror loop whose request is answered 200 with rows:
\* _search_mirror_async returns the parsed rows and the loop breaks.
MirrorAnswers ==
    /\ search_pc = "trying"
    /\ LoopRunning(mirror_i, AttemptLimit, search_results)
    /\ \E rows \in ResultLists : search_results' = rows
    /\ Attempted("rows", RequestsOnAnswer)
    /\ UNCHANGED <<search_cache, search_pc, query, max_results, current_time,
                   entry_time, prioritized_mirrors, mirror_i, ret,
                   n_searches, regVars, notRegSearchVars>>

\* One iteration whose request is answered 200 with no row: the loop goes on.
MirrorAnswersEmpty ==
    /\ search_pc = "trying"
    /\ LoopRunning(mirror_i, AttemptLimit, search_results)
    /\ mirror_i' = mirror_i + 1
    /\ Attempted("empty", RequestsOnAnswer)
    /\ UNCHANGED <<search_cache, search_pc, query, max_results, current_time,
                   entry_time, prioritized_mirrors, search_results, ret,
                   n_searches, regVars, notRegSearchVars>>

\* One iteration whose request fails, with a status other than 200 or with a
\* transport error the adapter's retries did not cure: _search_mirror_async
\* records the failure and returns [].
MirrorFails ==
    /\ search_pc = "trying"
    /\ LoopRunning(mirror_i, AttemptLimit, search_results)
    /\ \E rt \in FailedResponseTimes :
          UpdateMirrorReliability(prioritized_mirrors[mirror_i], FALSE, rt)
    /\ \/ Attempted("status", RequestsOnAnswer)
       \/ Attempted("transport", RequestsOnTransportError)
    /\ mirror_i' = mirror_i + 1
    /\ UNCHANGED <<now, libgen_mirrors, ranked, readmitted,
                   search_cache, search_pc, query, max_results, current_time,
                   entry_time, prioritized_mirrors, search_results, ret,
                   n_searches, notRegSearchVars>>

\* One iteration whose mirror accepts the connection and never answers:
\* http_client.get is a blocking requests call made without a timeout, so it
\* never returns, and wait_for cannot expire while the event loop is blocked.
MirrorHangs ==
    /\ search_pc = "trying"
    /\ LoopRunning(mirror_i, AttemptLimit, search_results)
    /\ Attempted("hang", RequestsOnAnswer)
    /\ search_pc' = "hung"
    /\ UNCHANGED <<search_cache, query, max_results, current_time,
                   entry_time, prioritized_mirrors, mirror_i, search_results, ret,
                   n_searches, regVars, notRegSearchVars>>

\* The rest of search() after the loop: deduplicate, truncate, write the cache
\* entry stamped with current_time, clean the cache up, return.
SearchFinish ==
    /\ search_pc = "trying"
    /\ ~LoopRunning(mirror_i, AttemptLimit, search_results)
    /\ LET final_results == Take(RemoveDuplicates(search_results), max_results)
       IN  /\ search_cache' = CleanupCache(
                  CachePut(search_cache, CacheKey(query, max_results),
                           final_results, current_time), now)
           /\ Returned("fresh", query, max_results, current_time, final_results,
                       net_calls, entry_time)
    /\ search_pc' = "idle"
    /\ query' = <<>>
    /\ max_results' = 0
    /\ current_time' = 0
    /\ entry_time' = -1
    /\ prioritized_mirrors' = <<>>
    /\ mirror_i' = 0
    /\ search_results' = <<>>
    /\ net_calls' = 0
    /\ attempts' = <<>>
    /\ UNCHANGED <<n_searches, regVars, notRegSearchVars>>

NextSearch ==
    \/ SearchTick
    \/ SearchMd5
    \/ SearchCacheHit
    \/ SearchCacheMiss
    \/ MirrorAnswers
    \/ MirrorAnswersEmpty
    \/ MirrorFails
    \/ MirrorHangs
    \/ SearchFinish

SpecSearch == InitSearch /\ [][NextSearch]_vars

\* The event loop runs the search coroutine whenever it can make a step.
SpecSearchFair == SpecSearch /\ WF_vars(NextSearch)

\* C4 (as claimed): a search() call made within the TTL of the previous call
\* with the same query returns the same list and sends no request to a mirror.
C4_RepeatedSearchServedFromCache ==
    ret.repeat => (ret.net = 0 /\ ret.same)

\* C5: a cached list is returned only while less than the TTL has elapsed since
\* the entry's stamp; a call that finds an entry of age >= TTL deletes it and
\* sends at least one request to a mirror before it returns.
C5_NoEntryServedAtOrAfterExpiry ==
    /\ ret.kind = "hit" => ret.start - ret.entry_time < CACHE_TTL
    /\ (ret.kind # "none" /\ ret.entry_time >= 0
          /\ ret.start - ret.entry_time >= CACHE_TTL)
            => (ret.kind = "fresh" /\ ret.net >= 1)
    /\ (search_pc = "trying" /\ entry_time >= 0)
            => CacheKey(query, max_results) \notin DOMAIN search_cache

\* Witness of C5: a call that found an entry exactly TTL old returned a list
\* fetched anew.
C5_Witness ==
    /\ ret.kind = "fresh"
    /\ ret.entry_time >= 0
    /\ ret.start - ret.entry_time = CACHE_TTL
    /\ ret.net >= 1

\* A hexadecimal digit in either case.
IsHexDigit(c) == c \in HexChars \cup {"A", "B", "C", "D", "E", "F"}

\* The query is exactly 32 hexadecimal characters.
IsHex32(q) == Len(q) = MD5_LENGTH /\ \A i \in 1..Len(q) : IsHexDigit(q[i])

\* C11: a search whose query is exactly 32 hexadecimal characters never enters
\* the loop over the catalog mirrors and never reads the cache: it returns from
\* the md5 branch, with at most one record, and that record's md5 is the query
\* as it was given.
C11_HexQueryBypassesCatalog ==
    /\ search_pc # "idle" => ~IsHex32(query)
    /\ IsHex32(ret.query) =>
          /\ ret.kind = "md5"
          /\ Len(ret.result) <= 1
          /\ \A k \in 1..Len(ret.result) : ret.result[k].md5 = ret.query

\* A 32-hex query typed with upper-case digits was answered with its
\* placeholder record.
C11_Witness ==
    /\ ret.kind = "md5"
    /\ ret.query = QueryHex
    /\ \E i \in 1..Len(ret.query) : ret.query[i] \notin HexChars
    /\ Len(ret.result) = 1

\* C14: the attempts of a search follow the ranked list, one mirror per
\* position from its head, and an attempt that parsed rows is the last one:
\* no mirror after it in the ranking is requested in that call.
C14_MirrorsTriedInRankUntilFirstRows ==
    /\ Len(attempts) <= Len(prioritized_mirrors)
    /\ \A k \in 1..Len(attempts) :
          /\ attempts[k].mirror = prioritized_mirrors[k]
          /\ k < Len(attempts) => attempts[k].outcome # "rows"

\* The first ranked mirror answered with rows, a second ranked mirror exists
\* and was not requested.
C14_Witness ==
    /\ search_pc = "trying"
    /\ Len(prioritized_mirrors) >= 2
    /\ Len(attempts) = 1
    /\ attempts[1].outcome = "rows"
    /\ search_results # <<>>
    /\ ~ENABLED MirrorAnswersEmpty

\* Some mirror of the call answered and no mirror had a matching row.
AnsweredWithZeroMatches(atts) ==
    /\ \E k \in 1..Len(atts) : atts[k].outcome = "empty"
    /\ \A k \in 1..Len(atts) : atts[k].outcome # "rows"

\* C15 (as claimed): a search all of whose mirror attempts failed at the
\* transport level does not return the way a search with zero matches does,
\* which is by returning the empty list.
C15_AllFailedDiffersFromZeroMatches ==
    [][(search_pc = "trying" /\ search_pc' = "idle") =>
          /\ AnsweredWithZeroMatches(attempts) =>
                (ret'.kind = "fresh" /\ ret'.result = <<>>)
          /\ AllTransportFailed(attempts) =>
                ~(ret'.kind = "fresh" /\ ret'.result = <<>>)]_vars

\* Outcomes recorded for mirror m, and those recorded as successes.
TotalRequests(rel, m) == IF m \in DOMAIN rel THEN rel[m].total_requests ELSE 0

SuccessfulRequests(rel, m) ==
    IF m \in DOMAIN rel THEN rel[m].successful_requests ELSE 0

\* C18 (as claimed): every mirror attempt that ends adds exactly one outcome
\* to that mirror's reliability record: a success for an answered request, a
\* failure for a transport error or a status other than 200.
C18_EveryAttemptRecordedOnce ==
    [][(Len(attempts') = Len(attempts) + 1
           /\ attempts'[Len(attempts')].outcome # "hang") =>
          LET a == attempts'[Len(attempts')]
              succeeded == a.outcome \in {"rows", "empty"}
          IN  /\ TotalRequests(mirror_reliability', a.mirror)
                    = TotalRequests(mirror_reliability, a.mirror) + 1
              /\ SuccessfulRequests(mirror_reliability', a.mirror)
                    = SuccessfulRequests(mirror_reliability, a.mirror)
                         + (IF succeeded THEN 1 ELSE 0)]_vars

\* C19 (as claimed): an attempt that ends in a bare transport error has sent
\* the request exactly twice, and no attempt sends it more than twice.
C19_TransportErrorRetriedOnce ==
    \A k \in 1..Len(attempts) :
        /\ attempts[k].requests <= 2
        /\ attempts[k].outcome = "transport" => attempts[k].requests = 2

\* C20 (as claimed): a search that has started its mirror loop returns.
C20_SearchReturns == (search_pc = "trying") ~> (search_pc = "idle")

\* a can be obtained from b by deleting elements, the order of the rest kept.
RECURSIVE IsSubsequence(_, _)
IsSubsequence(a, b) ==
    IF a = <<>> THEN TRUE
    ELSE IF b = <<>> THEN FALSE
    ELSE IF Head(a) = Head(b) THEN IsSubsequence(Tail(a), Tail(b))
    ELSE IsSubsequence(a, Tail(b))

\* C22: the list a search returns after its mirror loop is a subsequence, in
\* row order, of the rows parsed from one mirror's answer: the rows are those
\* of the only attempt that parsed any, and deduplication and truncation
\* delete records without moving one.
C22_ResultIsSubsequenceOfWinningRows ==
    [][(search_pc = "trying" /\ search_pc' = "idle") =>
          /\ IsSubsequence(ret'.result, search_results)
          /\ Len(ret'.result) <= max_results
          /\ Cardinality({k \in 1..Len(attempts) : attempts[k].outcome = "rows"})
                = (IF search_results = <<>> THEN 0 ELSE 1)]_vars

\* A search returned two records of a three-row answer: the middle row, a
\* duplicate of the first, was dropped and the third row follows the first.
C22_Witness ==
    /\ ret.kind = "fresh"
    /\ ret.result = <<BookA, BookB>>

\* A call of search() returns in this step.
SearchReturns ==
    \/ (search_pc = "trying" /\ search_pc' = "idle")
    \/ (search_pc = "idle" /\ search_pc' = "idle" /\ n_searches' # n_searches)

\* C35: after a search that found nothing on any attempted mirror, the same
\* search started within the TTL of that search's time stamp is served from
\* the cache: it returns the empty list and sends no request.
C35_EmptyResultIsCached ==
    [][(SearchReturns /\ ret.kind = "fresh" /\ ret.result = <<>> /\ ret'.repeat) =>
          (ret'.kind = "hit" /\ ret'.result = <<>> /\ ret'.net = 0)]_vars

\* An empty list came from the cache, stamped by the search repeated here.
C35_Witness ==
    /\ ret.kind = "hit"
    /\ ret.repeat
    /\ ret.result = <<>>
    /\ ret.net = 0
    /\ ret.entry_time >= StartTime

\* C38: no call of search() returns more records than its max_results,
\* whether the list comes from a mirror, from the cache or from the md5 branch.
C38_NeverMoreThanMaxResults ==
    ret.kind # "none" => Len(ret.result) <= ret.max_results

\* A search with max_results 1 returned one record while the cache held two
\* records for the same query under max_results 2.
C38_Witness ==
    /\ ret.kind \in {"fresh", "hit"}
    /\ ret.max_results = 1
    /\ Len(ret.result) = 1
    /\ CacheKey(ret.query, 2) \in DOMAIN search_cache
    /\ Len(search_cache[CacheKey(ret.query, 2)].data) = 2

SixMirrors == <<1, 2, 3, 4, 5, 6>>

InitSearchLoop ==
    /\ DedupInitVars
    /\ FetchInitVars
    /\ SendInitVars
    /\ LinkTestInitVars
    /\ ConcInitVars
    /\ ParseInitVars
    /\ now = StartTime
    /\ libgen_mirrors = SixMirrors
    /\ failed_mirrors = {}
    /\ mirror_reliability = <<>>
    /\ mirror_response_times = <<>>
    /\ ranked = <<>>
    /\ readmitted = {}
    /\ consec_failures = [i \in SeqElems(SixMirrors) |-> 0]
    /\ n_outcomes = 0
    /\ search_cache = <<>>
    /\ search_pc = "idle"
    /\ query = <<>>
    /\ max_results = 0
    /\ current_time = 0
    /\ entry_time = -1
    /\ prioritized_mirrors = <<>>
    /\ mirror_i = 0
    /\ search_results = <<>>
    /\ net_calls = 0
    /\ attempts = <<>>
    /\ ret = NoRet
    /\ n_searches = MaxSearches - 1
    /\ ResolveInitVars

NextSearchLoop ==
    \/ SearchCacheMiss
    \/ MirrorAnswers
    \/ MirrorAnswersEmpty
    \/ MirrorFails
    \/ MirrorHangs
    \/ SearchFinish

SpecSearchLoop == InitSearchLoop /\ [][NextSearchLoop]_vars

\* C24: a search attempts at most five mirrors, the first five of its ranked
\* list, and when none of them parsed a row it returns the empty list.
C24_AtMostFiveMirrorsAttempted ==
    [][/\ Len(attempts') <= SEARCH_MIRROR_CAP
       /\ \A k \in 1..Len(attempts') : attempts'[k].mirror = prioritized_mirrors'[k]
       /\ (search_pc = "trying" /\ search_pc' = "idle" /\ search_results = <<>>) =>
             (ret'.kind = "fresh" /\ ret'.result = <<>>)]_vars

\* Six mirrors were ranked, five calls were made, each failed or found
\* nothing, and the search returned the empty list.
C24_Witness ==
    /\ Len(libgen_mirrors) = 6
    /\ ret.kind = "fresh"
    /\ ret.net = SEARCH_MIRROR_CAP * MAX_RETRIES
    /\ ret.result = <<>>

\* ------------------------------------------------------------------------
\* Concurrent searches: specification and claims
\*
\* The bot starts every search() as a task of one event loop.  A task gives
\* the loop to another task only where it awaits: search() awaits wait_for
\* around each mirror attempt and nowhere else; _search_mirror_async makes a
\* blocking http_client.get and calls _update_mirror_reliability with no await
\* in between.  A step of a task is therefore the code between two awaits.

Tasks == {1, 2}

\* search() calls that go to the mirrors
MaxCalls == 2

ConcMaxResults == 2

IdleCall ==
    [pc |-> "idle", query |-> <<>>, max_results |-> 0, current_time |-> 0,
     mirrors |-> <<>>, i |-> 0, results |-> <<>>, fetched |-> 0]

\* A seeded slip: the entry is stamped with the time of the write.
CacheStampAtWrite(call, t) == t

\* The time stamp of the entry a call writes: its current_time, read before
\* the cache check
CacheStamp(call, t) == call.current_time

InitConcurrent ==
    /\ DedupInitVars
    /\ FetchInitVars
    /\ SendInitVars
    /\ LinkTestInitVars
    /\ ParseInitVars
    /\ ResolveInitVars
    /\ SearchInitVars
    /\ now = StartTime
    /\ libgen_mirrors = SearchMirrors
    /\ failed_mirrors = {}
    /\ mirror_reliability = <<>>
    /\ mirror_response_times = <<>>
    /\ ranked = <<>>
    /\ readmitted = {}
    /\ consec_failures = [m \in SeqElems(SearchMirrors) |-> 0]
    /\ n_outcomes = 0
    /\ calls = [t \in Tasks |-> IdleCall]
    /\ recorded = [m \in SeqElems(SearchMirrors) |-> [total |-> 0, successes |-> 0]]
    /\ fetched_at = <<>>
    /\ last_hit = None

ConcTick ==
    /\ n_searches < MaxCalls \/ \E t \in Tasks : calls[t].pc = "trying"
    /\ Tick
    /\ last_hit' = None
    /\ UNCHANGED <<failed_mirrors, mirror_reliability, mirror_response_times,
                   consec_failures, n_outcomes, search_cache, n_searches,
                   calls, recorded, fetched_at, notConcVars>>

\* search() of task t, served from the cache
ConcCacheHit(t) ==
    /\ calls[t].pc = "idle"
    /\ LET key == CacheKey(QueryPy, ConcMaxResults)
       IN  /\ key \in DOMAIN search_cache
           /\ CacheFresh(now, search_cache[key].time)
           /\ last_hit' = <<[time |-> now, stamp |-> search_cache[key].time,
                             fetched |-> fetched_at[key],
                             data |-> search_cache[key].data]>>
    /\ UNCHANGED <<now, failed_mirrors, mirror_reliability, mirror_response_times,
                   consec_failures, n_outcomes, search_cache, n_searches, calls,
                   recorded, fetched_at, notConcVars>>

\* search() of task t up to its first await: the cache check misses, an
\* expired entry is deleted, the mirrors are ranked.
ConcCacheMiss(t) ==
    /\ last_hit' = None
    /\ calls[t].pc = "idle"
    /\ n_searches < MaxCalls
    /\ LET key == CacheKey(QueryPy, ConcMaxResults)
           r == GetPrioritizedMirrors(libgen_mirrors, failed_mirrors,
                                      mirror_reliability, mirror_response_times, now)
       IN  /\ ~(key \in DOMAIN search_cache /\ CacheFresh(now, search_cache[key].time))
           /\ search_cache' = CacheWithout(search_cache, key)
           /\ fetched_at' = CacheWithout(fetched_at, key)
           /\ failed_mirrors' = r.failed
           /\ calls' = [calls EXCEPT ![t] =
                           [pc |-> "trying", query |-> QueryPy,
                            max_results |-> ConcMaxResults, current_time |-> now,
                            mirrors |-> r.list, i |-> 1, results |-> <<>>,
                            fetched |-> now]]
    /\ n_searches' = n_searches + 1
    /\ UNCHANGED <<now, mirror_reliability, mirror_response_times, consec_failures,
                   n_outcomes, recorded, notConcVars>>

\* The mirror loop of task t makes another iteration
ConcLoopRunning(t) ==
    /\ calls[t].pc = "trying"
    /\ LoopRunning(calls[t].i, Min(SEARCH_MIRROR_CAP, Len(calls[t].mirrors)),
                   calls[t].results)

\* One iteration of task t answered 200 with rows: nothing is recorded
ConcMirrorAnswers(t) ==
    /\ last_hit' = None
    /\ ConcLoopRunning(t)
    /\ \E rows \in ResultLists :
          calls' = [calls EXCEPT ![t].results = rows, ![t].fetched = now]
    /\ UNCHANGED <<now, failed_mirrors, mirror_reliability, mirror_response_times,
                   consec_failures, n_outcomes, search_cache, n_searches,
                   recorded, fetched_at, notConcVars>>

\* One iteration of task t answered 200 without rows
ConcMirrorAnswersEmpty(t) ==
    /\ last_hit' = None
    /\ ConcLoopRunning(t)
    /\ calls' = [calls EXCEPT ![t].i = @ + 1, ![t].fetched = now]
    /\ UNCHANGED <<now, failed_mirrors, mirror_reliability, mirror_response_times,
                   consec_failures, n_outcomes, search_cache, n_searches,
                   recorded, fetched_at, notConcVars>>

\* One iteration of task t whose request fails: the failure is recorded
ConcMirrorFails(t) ==
    /\ last_hit' = None
    /\ ConcLoopRunning(t)
    /\ LET m == calls[t].mirrors[calls[t].i]
       IN  /\ \E rt \in FailedResponseTimes : UpdateMirrorReliability(m, FALSE, rt)
           /\ recorded' = [recorded EXCEPT ![m].total = @ + 1]
    /\ calls' = [calls EXCEPT ![t].i = @ + 1, ![t].fetched = now]
    /\ UNCHANGED <<now, search_cache, n_searches, fetched_at, notConcVars>>

\* The rest of search() of task t after its loop: the cache entry is written
\* and the cache cleaned up
ConcFinish(t) ==
    /\ last_hit' = None
    /\ calls[t].pc = "trying"
    /\ ~LoopRunning(calls[t].i, Min(SEARCH_MIRROR_CAP, Len(calls[t].mirrors)),
                    calls[t].results)
    /\ LET key == CacheKey(calls[t].query, calls[t].max_results)
           final_results == Take(RemoveDuplicates(calls[t].results),
                                 calls[t].max_results)
           cache == CleanupCache(CachePut(search_cache, key, final_results,
                                          CacheStamp(calls[t], now)), now)
       IN  /\ search_cache' = cache
           /\ fetched_at' = [k \in DOMAIN cache |->
                                IF k = key THEN calls[t].fetched ELSE fetched_at[k]]
    /\ calls' = [calls EXCEPT ![t] = IdleCall]
    /\ UNCHANGED <<now, failed_mirrors, mirror_reliability, mirror_response_times,
                   consec_failures, n_outcomes, n_searches, recorded, notConcVars>>

NextConcurrent ==
    \/ ConcTick
    \/ \E t \in Tasks : ConcCacheHit(t)
    \/ \E t \in Tasks : ConcCacheMiss(t)
    \/ \E t \in Tasks : ConcMirrorAnswers(t)
    \/ \E t \in Tasks : ConcMirrorAnswersEmpty(t)
    \/ \E t \in Tasks : ConcMirrorFails(t)
    \/ \E t \in Tasks : ConcFinish(t)

SpecConcurrent == InitConcurrent /\ [][NextConcurrent]_vars

\* C32: however the steps of concurrent searches interleave, the counters of
\* every mirror equal the number of _update_mirror_reliability calls made for
\* it and the number of those that reported a success.
C32_NoReliabilityUpdateLost ==
    \A m \in DOMAIN recorded :
        IF m \in DOMAIN mirror_reliability
        THEN /\ mirror_reliability[m].total_requests = recorded[m].total
             /\ mirror_reliability[m].successful_requests = recorded[m].successes
        ELSE recorded[m].total = 0

\* Two searches in flight have each recorded an outcome for the same mirror.
C32_Witness ==
    /\ \A t \in Tasks : calls[t].pc = "trying" /\ calls[t].i = 2
    /\ \E m \in DOMAIN recorded : recorded[m].total = 2

\* C39: every cache entry carries the start time of the search that wrote it,
\* which is not later than the time its list was fetched, and a cache hit
\* serves a list fetched less than the TTL before the hit.
C39_HitNeverOlderThanTtl ==
    /\ \A k \in DOMAIN search_cache : search_cache[k].time <= fetched_at[k]
    /\ last_hit # None =>
          /\ last_hit[1].stamp <= last_hit[1].fetched
          /\ last_hit[1].time - last_hit[1].fetched < CACHE_TTL

\* While another search is in flight, a hit serves rows that were fetched
\* after the start of the search that wrote them.
C39_Witness ==
    /\ last_hit # None
    /\ last_hit[1].stamp < last_hit[1].fetched
    /\ last_hit[1].data # <<>>
    /\ \E t \in Tasks : calls[t].pc = "trying"

\* ------------------------------------------------------------------------
\* Parser: LibGenSearcher._parse_search_results and _clean_book_info

MIN_COLUMNS == 9

MIN_TITLE_LENGTH == 2

UnknownTitle == <<"U", "n", "k", "n", "o", "w", "n", " ", "T", "i", "t", "l", "e">>

\* A text node of the title cell: its string, and whether an anchor holds it
Node(s, a) == [s |-> s, a |-> a]

\* get_text(strip=True) of a cell: its strings, each stripped, joined
RECURSIVE GetTextStrip(_)
GetTextStrip(nodes) ==
    IF nodes = <<>> THEN <<>>
    ELSE Strip(Head(nodes).s) \o GetTextStrip(Tail(nodes))

\* The loop over title_links: the first link text longer than two characters
RECURSIVE FirstUsableLink(_)
FirstUsableLink(nodes) ==
    IF nodes = <<>> THEN None
    ELSE LET link_text == Strip(Head(nodes).s)
         IN  IF /\ Head(nodes).a
                /\ Len(link_text) > MIN_TITLE_LENGTH
                /\ link_text # <<"b">>
             THEN <<link_text>>
             ELSE FirstUsableLink(Tail(nodes))

\* `title` of a row: a usable link text, else the cell text when it is longer
\* than two characters, else "Unknown Title"
ExtractTitle(nodes) ==
    LET title_text == GetTextStrip(nodes)
        link == FirstUsableLink(nodes)
    IN  IF link # None THEN link[1]
        ELSE IF Len(title_text) > MIN_TITLE_LENGTH THEN title_text
        ELSE UnknownTitle

HasPrefixIgnoreCase(s, prefix) ==
    Len(s) >= Len(prefix) /\ Lower(SubSeq(s, 1, Len(prefix))) = prefix

DropPrefix(s, n) == SubSeq(s, n + 1, Len(s))

\* re.sub(r'^(A |An |The )', '', title, flags=re.IGNORECASE)
StripArticle(title) ==
    IF HasPrefixIgnoreCase(title, <<"a", " ">>) THEN DropPrefix(title, 2)
    ELSE IF HasPrefixIgnoreCase(title, <<"a", "n", " ">>) THEN DropPrefix(title, 3)
    ELSE IF HasPrefixIgnoreCase(title, <<"t", "h", "e", " ">>) THEN DropPrefix(title, 4)
    ELSE title

CleanBookInfo(book_info) ==
    [book_info EXCEPT !.title = StripArticle(Strip(@)), !.author = Strip(@)]

\* `book_info` of a row after the clean-up
BookInfo(row) ==
    CleanBookInfo([md5 |-> row.md5,
                   title |-> ExtractTitle(row.nodes),
                   author |-> Strip(row.author)])

\* A seeded slip: the record takes the raw cell text and is always appended.
ParseRowRawTitle(row) ==
    IF row.cells < MIN_COLUMNS \/ row.raises THEN <<>>
    ELSE <<[BookInfo(row) EXCEPT !.title = StripArticle(GetTextStrip(row.nodes))]>>

\* One iteration of the row loop: what it appends to `results`
ParseRow(row) ==
    IF row.cells < MIN_COLUMNS THEN <<>>
    ELSE IF row.raises THEN <<>>
    ELSE LET book_info == BookInfo(row)
         IN  IF book_info.title # <<>> THEN <<book_info>> ELSE <<>>

\* A seeded slip: an exception in a row ends the loop.
RECURSIVE ParseRowsAbortOnError(_)
ParseRowsAbortOnError(rows) ==
    IF rows = <<>> THEN <<>>
    ELSE IF Head(rows).cells >= MIN_COLUMNS /\ Head(rows).raises THEN <<>>
    ELSE ParseRow(Head(rows)) \o ParseRowsAbortOnError(Tail(rows))

RECURSIVE ParseRows(_)
ParseRows(rows) ==
    IF rows = <<>> THEN <<>>
    ELSE ParseRow(Head(rows)) \o ParseRows(Tail(rows))

\* `rows`: the rows of tbody, or without a tbody every row but the first
TableRows(t) ==
    IF t.tbody THEN t.trs
    ELSE IF t.trs = <<>> THEN <<>> ELSE Tail(t.trs)

ParseSearchResults(t) ==
    IF ~t.found THEN <<>> ELSE ParseRows(TableRows(t))

\* ------------------------------------------------------------------------
\* Parser: specification and claims

MaxRows == 2

S1984 == <<"1", "9", "8", "4">>

RowValid ==
    [cells |-> MIN_COLUMNS, raises |-> FALSE, md5 |-> "m1",
     nodes |-> <<Node(S1984, TRUE)>>,
     author |-> <<"O", "r", "w", "e", "l", "l">>]

RowShort == [RowValid EXCEPT !.cells = MIN_COLUMNS - 1, !.md5 = "m2"]

RowRaises == [RowValid EXCEPT !.raises = TRUE, !.md5 = "m2"]

RowArticle ==
    [cells |-> MIN_COLUMNS, raises |-> FALSE, md5 |-> "m2",
     nodes |-> <<Node(<<" ", "T", "h", "e", " ", "G", "o", " ">>, TRUE)>>,
     author |-> <<>>]

RowGlyph ==
    [cells |-> MIN_COLUMNS, raises |-> FALSE, md5 |-> NoMd5,
     nodes |-> <<Node(<<"b">>, TRUE), Node(<<"a", " ", "b">>, FALSE)>>,
     author |-> <<" ">>]

RowBare ==
    [cells |-> MIN_COLUMNS + 1, raises |-> FALSE, md5 |-> "m1",
     nodes |-> <<Node(<<"T", "h", "e", " ">>, FALSE)>>,
     author |-> <<"A">>]

RowArticleOnly ==
    [cells |-> MIN_COLUMNS, raises |-> FALSE, md5 |-> "m2",
     nodes |-> <<Node(<<"A", " ">>, TRUE)>>,
     author |-> <<"B">>]

RowBlank ==
    [cells |-> MIN_COLUMNS, raises |-> FALSE, md5 |-> "m1",
     nodes |-> <<Node(<<" ">>, FALSE)>>,
     author |-> <<>>]

RowLowerArticle ==
    [cells |-> MIN_COLUMNS, raises |-> FALSE, md5 |-> NoMd5,
     nodes |-> <<Node(<<"a", " ", "b">>, TRUE)>>,
     author |-> <<"A">>]

TableRowSamples ==
    {RowValid, RowShort, RowRaises, RowArticle, RowGlyph, RowBare,
     RowArticleOnly, RowBlank, RowLowerArticle}

NoTable == [found |-> FALSE, tbody |-> FALSE, trs |-> <<>>]

Tables ==
    {NoTable} \cup [found : {TRUE}, tbody : BOOLEAN,
                    trs : SeqsOf(TableRowSamples, 0, MaxRows)]

InitParse ==
    /\ DedupInitVars
    /\ FetchInitVars
    /\ RegInitVars
    /\ SearchInitVars
    /\ ResolveInitVars
    /\ SendInitVars
    /\ LinkTestInitVars
    /\ ConcInitVars
    /\ table \in Tables
    /\ parsed = <<>>
    /\ parse_pc = "call"

\* _parse_search_results(html, base_url)
ParseSearchResultsCall ==
    /\ parse_pc = "call"
    /\ parsed' = ParseSearchResults(table)
    /\ parse_pc' = "returned"
    /\ UNCHANGED <<table, notParseVars>>

NextParse == ParseSearchResultsCall

SpecParse == InitParse /\ [][NextParse]_vars

\* A row that has the nine columns and whose extraction raises nothing
WellFormed(row) == row.cells >= MIN_COLUMNS /\ ~row.raises

\* The returned list holds, in row order, the record of each well-formed row
\* of `rows` and nothing else.
YieldsEachWellFormedRow(rows) ==
    LET wf == {i \in DOMAIN rows : WellFormed(rows[i])}
    IN  /\ Len(parsed) = Cardinality(wf)
        /\ \A i \in wf : \E k \in DOMAIN parsed : parsed[k] = BookInfo(rows[i])
        /\ IsSubsequence(parsed, [i \in DOMAIN rows |-> BookInfo(rows[i])])

\* C25 (as claimed): every well-formed row of the table yields its record,
\* whatever rows come before or after it; the other rows are skipped.
C25_EveryWellFormedRowOfTableYields ==
    parse_pc = "returned" => YieldsEachWellFormedRow(table.trs)

\* C25 (amended): every well-formed row among the rows the parser iterates
\* (the rows of tbody, or without a tbody every row but the first, which is
\* taken for the header) yields its record, in row order; rows with fewer
\* than nine columns and rows whose extraction raises are skipped.
C25_EveryWellFormedIteratedRowYields ==
    parse_pc = "returned" => YieldsEachWellFormedRow(TableRows(table))

\* A two-row body with a malformed row before a valid one gave one record.
C25_Witness ==
    /\ parse_pc = "returned"
    /\ table.found /\ table.tbody
    /\ Len(table.trs) = 2
    /\ table.trs[1].raises
    /\ table.trs[1].cells >= MIN_COLUMNS
    /\ WellFormed(table.trs[2])
    /\ parsed = <<BookInfo(table.trs[2])>>

\* C26: every record the parser returns has a non-empty title, also when the
\* clean-up removed a leading article, and so has the mock entry of an md5
\* query; the author may be empty.
C26_TitleNeverEmpty ==
    /\ \A k \in DOMAIN parsed : parsed[k].title # <<>>
    /\ \A q \in Queries : MockBookEntry(q).title # <<>>

\* A record whose article was removed and whose author is empty.
C26_Witness ==
    /\ parse_pc = "returned"
    /\ \E k \in DOMAIN parsed :
          /\ parsed[k].title = <<"G", "o">>
          /\ parsed[k].author = <<>>

\* ------------------------------------------------------------------------
\* Link verification: specification and claims

HeadStatuses == {200, 404, 405}

HeadContentTypes ==
    {"application/pdf", "application/octet-stream", "text/plain", "text/html",
     "image/vnd.djvu", ""}

HeadContentLengths == {NoHeader, <<0>>, <<5000>>}

\* session.head raises: the connection fails, is reset, or times out
HeadError ==
    [error |-> TRUE, status |-> 0, content_type |-> "", content_length |-> NoHeader]

HeadAnswers ==
    {HeadError} \cup [error : {FALSE}, status : HeadStatuses,
                      content_type : HeadContentTypes,
                      content_length : HeadContentLengths]

GetPartialFile ==
    [status |-> 206, content_type |-> "application/pdf", content_length |-> <<1>>]

GetHtml ==
    [status |-> 200, content_type |-> "text/html", content_length |-> <<5000>>]

GetAnswers == {GetPartialFile, GetHtml}

\* response.status, headers.get('Content-Type', ''), and
\* int(headers.get('Content-Length', '0'))
ReadHeaders(a) ==
    [status |-> a.status,
     content_type |-> a.content_type,
     content_length |-> IF a.content_length = NoHeader THEN 0
                        ELSE a.content_length[1]]

InitLinkTest ==
    /\ DedupInitVars
    /\ FetchInitVars
    /\ RegInitVars
    /\ SearchInitVars
    /\ ResolveInitVars
    /\ SendInitVars
    /\ ParseInitVars
    /\ ConcInitVars
    /\ head_answer \in HeadAnswers
    /\ get_answer \in GetAnswers
    /\ link_requests = <<>>
    /\ link_ok = None

\* _test_download_link when the HEAD request is answered
TestLinkHeadAnswered ==
    /\ link_ok = None
    /\ ~head_answer.error
    /\ link_requests' = <<"HEAD">>
    /\ link_ok' = <<TestDownloadLink(ReadHeaders(head_answer))>>
    /\ UNCHANGED <<head_answer, get_answer, notLinkTestVars>>

\* _test_download_link when session.head raises: the except clause
TestLinkHeadRaises ==
    /\ link_ok = None
    /\ head_answer.error
    /\ link_requests' = <<"HEAD">>
    /\ link_ok' = <<FALSE>>
    /\ UNCHANGED <<head_answer, get_answer, notLinkTestVars>>

NextLinkTest ==
    \/ TestLinkHeadAnswered
    \/ TestLinkHeadRaises

SpecLinkTest == InitLinkTest /\ [][NextLinkTest]_vars

\* C27 (as claimed): a link is accepted only on a success whose content type
\* is not HTML and whose Content-Length is present and positive.
C27_AcceptedOnlyIfPositiveSize ==
    link_ok = <<TRUE>> =>
        /\ head_answer.status = 200
        /\ head_answer.content_type \notin HtmlTypes
        /\ head_answer.content_length # NoHeader
        /\ head_answer.content_length[1] > 0

\* The server refuses the HEAD method or fails the request
HeadRejected(a) == a.error \/ a.status = 405

\* A success that is not HTML and has a positive size
ShowsValidContent(a) ==
    /\ a.status \in {200, 206}
    /\ a.content_type \notin HtmlTypes
    /\ a.content_length # NoHeader
    /\ a.content_length[1] > 0

\* C28 (as claimed): when HEAD is rejected and a ranged GET of the link shows
\* valid content, the verification sends that GET and accepts the link.
C28_RejectedHeadFallsBackToRangedGet ==
    (link_ok # None /\ HeadRejected(head_answer) /\ ShowsValidContent(get_answer)) =>
        (link_ok = <<TRUE>> /\ Len(link_requests) = 2 /\ link_requests[2] = "GET")

\* ------------------------------------------------------------------------
\* Resolve: specification and claims
\* ------------------------------------------------------------------------

InitResolve ==
    /\ DedupInitVars
    /\ FetchInitVars
    /\ SendInitVars
    /\ LinkTestInitVars
    /\ ConcInitVars
    /\ ParseInitVars
    /\ RegInitVars
    /\ SearchInitVars
    /\ resolve_final_urls \in BOOLEAN
    /\ resolve_pc = "mirrors"
    /\ mirror_index = 1
    /\ collected_links = <<>>
    /\ successful_mirrors = 0

MirrorLimit == Min(MAX_DOWNLOAD_MIRRORS, Len(DownloadMirrors))

\* One iteration of the mirror loop in which _get_final_download_links returns
\* within the 3 seconds: its links are appended, and the loop breaks once eight
\* links from two mirrors are collected.
MirrorPage ==
    /\ resolve_pc = "mirrors"
    /\ mirror_index <= MirrorLimit
    /\ \E page \in Pages,
          probe \in [SeqElems(OtherMirrors) \cup {DownloadMirrors[mirror_index]}
                        -> ProbeResponses] :
          LET links == GetFinalDownloadLinks(DownloadMirrors[mirror_index], page,
                                             probe, resolve_final_urls)
          IN  /\ collected_links' = collected_links \o links
              /\ successful_mirrors' =
                    IF links # <<>> THEN successful_mirrors + 1 ELSE successful_mirrors
              /\ mirror_index' =
                    IF /\ links # <<>>
                       /\ Len(collected_links \o links) >= EARLY_RETURN_LINKS
                       /\ successful_mirrors + 1 >= EARLY_RETURN_MIRRORS
                    THEN MirrorLimit + 1
                    ELSE mirror_index + 1
    /\ UNCHANGED <<resolve_final_urls, resolve_pc, notResolveVars>>

\* One iteration that ends in the TimeoutError of wait_for or in another
\* exception: nothing is appended.
MirrorTimeout ==
    /\ resolve_pc = "mirrors"
    /\ mirror_index <= MirrorLimit
    /\ mirror_index' = mirror_index + 1
    /\ UNCHANGED <<resolve_final_urls, resolve_pc, collected_links,
                   successful_mirrors, notResolveVars>>

\* The rest of get_download_links after the loop: the additional sources are
\* built, each is tested, the ones that pass are appended, the list is returned.
ResolveFinish ==
    /\ resolve_pc = "mirrors"
    /\ mirror_index > MirrorLimit
    /\ \E probe \in [SeqElems(AdditionalSources) -> ProbeResponses] :
          collected_links' = collected_links \o VerifiedAdditionalLinks(probe, 1)
    /\ resolve_pc' = "returned"
    /\ UNCHANGED <<resolve_final_urls, mirror_index, successful_mirrors,
                   notResolveVars>>

NextResolve ==
    \/ MirrorPage
    \/ MirrorTimeout
    \/ ResolveFinish

SpecResolve == InitResolve /\ [][NextResolve]_vars

\* C3 (as claimed): every link of the list get_download_links returns passed
\* _test_download_link before it was added.
C3_EveryReturnedLinkVerified ==
    resolve_pc = "returned"
        => \A i \in 1..Len(collected_links) : collected_links[i].verified

\* The links one call of _get_final_download_links appended.
NewLinks == SubSeq(collected_links', Len(collected_links) + 1, Len(collected_links'))

\* C17 (as claimed): the get.php link of a mirror's page contributes its own
\* verified link at most once, and synthesized links only on configured
\* download mirrors other than that mirror, at most as many as there are
\* configured download mirrors.
C17_SynthesizedOnlyOnConfiguredMirrors ==
    [][(resolve_pc = "mirrors" /\ mirror_index <= MirrorLimit
           /\ mirror_index' # mirror_index) =>
          LET source == DownloadMirrors[mirror_index]
              original == {i \in 1..Len(NewLinks) : NewLinks[i].type = "direct_download"}
              synthesized == {i \in 1..Len(NewLinks) : NewLinks[i].type = "mirror_download"}
          IN  /\ Cardinality(original) <= 1
              /\ \A i \in synthesized :
                    NewLinks[i].url[1] \in SeqElems(DownloadMirrors) \ {source}
              /\ Cardinality(synthesized) <= Len(DownloadMirrors)]_vars

\* C29 (as claimed): one call of _get_final_download_links appends synthesized
\* links (mirror_download) only when the get.php link of that page passed its
\* own test, that is, when it also appended the direct_download link.
C29_SynthesizedOnlyForVerifiedCanonical ==
    [][(resolve_pc = "mirrors" /\ mirror_index <= MirrorLimit
           /\ mirror_index' # mirror_index) =>
          ((\E i \in 1..Len(NewLinks) : NewLinks[i].type = "mirror_download")
              => (\E j \in 1..Len(NewLinks) : NewLinks[j].type = "direct_download"))]_vars

\* The mirror loop awaits _get_final_download_links inside the for statement:
\* the request of mirror k is sent when the loop index reaches k, and the
\* index moves on when the await ends (links, timeout or exception).
RequestStarted(k) == resolve_pc = "mirrors" /\ mirror_index >= k

RequestEnded(k) == resolve_pc # "mirrors" \/ mirror_index > k

\* The download mirrors whose detail-page request is in flight
InFlightMirrors ==
    {k \in 1..MirrorLimit : RequestStarted(k) /\ ~RequestEnded(k)}

\* C30 (as claimed): at most five mirrors are asked, and a mirror's request
\* does not hold back the next one: when the request of mirror k ends (with
\* links, a timeout or an error) the request of mirror k + 1 of the slice was
\* already in flight beside it.
C30_MirrorsTriedInParallel ==
    [][(resolve_pc = "mirrors" /\ mirror_index' # mirror_index) =>
          /\ mirror_index' <= MAX_DOWNLOAD_MIRRORS + 1
          /\ mirror_index < MirrorLimit =>
                (mirror_index + 1) \in InFlightMirrors]_vars

\* The links of the returned list that came from an additional source
AdditionalLinkIndexes ==
    {i \in 1..Len(collected_links) : collected_links[i].type \in SeqElems(AdditionalSources)}

\* C33 (as claimed): when the mirror loop collected at least one link, the
\* returned list holds no additional-source link.
C33_AdditionalSourcesOnlyWhenNoMirrorLink ==
    resolve_pc = "returned" =>
        (AdditionalLinkIndexes # 1..Len(collected_links) => AdditionalLinkIndexes = {})

\* C36 (as claimed): the returned list holds no two links with the same URL.
C36_NoTwoLinksWithSameUrl ==
    resolve_pc = "returned" =>
        \A i, j \in 1..Len(collected_links) :
            collected_links[i].url = collected_links[j].url => i = j

====
